---- MODULE Spec2Model ----
(***************************************************************************)
(* State-machine model of the ValtricAI consulting backend.                *)
(*                                                                         *)
(* The module holds the server's independent sub-systems, each with its own        *)
(* specification over the shared variable tuple:                           *)
(*   Spec        conversation manager + session routes                     *)
(*   SpecCache   model router response cache (redis_cache + model_router)  *)
(*   SpecQueue   export queue, its worker and the job status table         *)
(*   SpecExport  SpecQueue plus the export service's files and routes      *)
(*   SpecRate    rate limiting middleware                                  *)
(***************************************************************************)
EXTENDS Integers, Sequences, FiniteSets, TLC

VARIABLES
    \* ---- conversation manager / session routes
    now,              \* datetime.utcnow(), in hours
    active_sessions,  \* ConversationManager.active_sessions : sid -> session
    chat_sessions,    \* table chat_sessions : sid -> row
    chat_messages,    \* table chat_messages : sid -> number of stored rows
    background_tasks, \* add_message tasks scheduled by chat_message
    resp,             \* what the last session operation returned
    \* ---- model router response cache
    redis,            \* the Redis key space : cache key -> cached payload
    genResp,          \* what the last generate_response call returned
    cache_service,    \* the module-level redis_cache: unloaded, ready, import_failed
    \* ---- rate limiting middleware
    clock,            \* time.time(), in ticks of 1/TicksPerSecond seconds
    requests,         \* RateLimitingMiddleware.requests : ip -> timestamps
    seen,             \* history: every non-exempt request, ip -> <<[t, fwd]>>
    rlResp,           \* what the last dispatch answered
    \* ---- export queue, export service, export routes
    queue,            \* PGMQ export_queue : msg_id -> message
    next_job,         \* number of enqueue_export_job calls so far
    export_status,    \* PGMQueueService.export_status : job_id -> record
    batch,            \* messages the worker has read and not yet handled
    wcur,             \* the worker's position inside one message
    wevent,           \* history: the worker's last step
    redeliveries,     \* number of visibility timeouts that ran out so far
    completions,      \* history: job_id -> times rendered and marked completed
    file_cache,       \* ExportService.file_cache : file_id -> record
    exportResp,       \* what the last export call or route returned
    \* ---- query normalisation (RedisCacheService._normalize_query)
    query_text,       \* the query of one request
    query_variant,    \* a second query: the first but for case, blanks,
                      \* stripped characters and listed phrase variants
    normalized,       \* what _normalize_query returned for them
    \* ---- hybrid retriever (rag_system/retriever.py, rag_system/supabase_client.py)
    retrieved,        \* what the last HybridRetriever.retrieve call did and returned
    fused,            \* the last _reciprocal_rank_fusion call: its lists, k and output
    \* ---- sticky routing (services/enhanced_conversation_manager.py)
    session_metadata, \* chat_sessions.metadata of the manager's sessions : sid -> metadata
    sticky_history,   \* history: sid -> the last set that was stored and the consumes since
    stickyResp,       \* what the last sticky routing call returned
    \* ---- streaming chat: POST /chat/stream and WS /chat/ws (api/routes/chat.py)
    sse,              \* one chat/stream response: position, events sent, chunks read, stored reply
    websocket,        \* one WebSocket connection: position, last inbound frame, its answer
    \* ---- production profile middleware stack (main_production.py)
    limiter_hits,     \* slowapi storage: ip -> requests counted in the current minute
    http_requests,    \* HTTP_REQUESTS counter, all labels together
    prodResp,         \* what the last production request got back
    \* ---- monitoring counters (api/routes/monitoring.py) behind the middleware of main.py
    metrics_store,    \* requests_total and errors_total of _metrics_store
    monResp,          \* what the last request through main.py's stack did
    \* ---- application lifecycle of main.py
    app_phase,        \* created, serving or stopped
    startup_complete, \* the lifespan's startup part ran to its yield
    middleware_stack, \* none, built or failed
    cleanup_task,     \* RateLimitingMiddleware.cleanup_task: none or running
    rag_health,       \* what supabase_manager.health_check reports
    queue_workers,    \* start_queue_workers has run
    answered,          \* requests answered so far
    appResp,          \* answer to the last request
    \* ---- requests suspended inside the rate limiter (rate_limiting.py)
    in_flight,        \* ip -> requests waiting in call_next
    \* ---- concurrent add_message calls on one session (conversation_manager.py)
    turn_pc,          \* call -> position in add_message
    turn_session,     \* call -> the session object its local variable refers to
    event_loop,       \* the call that runs until its next suspension, or NoCall
    session_objects,  \* object -> message_count of that ConversationSession object
    cache_ref,        \* the object active_sessions holds for the session, or NoObject
    stored_count,     \* message_count of the session's row
    stored_messages,  \* rows of chat_messages for the session
    turn_result,      \* call -> what add_message returned
    write_log,        \* updates of the session's row, in order
    base_count,       \* message_count of the row before the calls
    \* ---- process-wide current-trace slot (utils/tracing.py)
    current_trace,    \* _current_trace: the tracer in the slot, or NoTrace
    trace_pc,         \* request -> pending, responding or finished
    recordings,       \* what the model router recorded: into which tracer, caused by which request
    trace_log,        \* tracer -> the request whose generation its logged trace shows
    \* ---- export worker loop over the queue, for progress (queue_service.py)
    pgmq,             \* message id -> kind of message and where it is: absent, visible, hidden or deleted
    polled,           \* the messages of the last read the worker has still to handle
    hidden_groups,    \* the reads whose visibility timeout is still running, oldest first
    job_state         \* message id -> status of its job in export_status

sessVars == <<now, active_sessions, chat_sessions, chat_messages,
              background_tasks, resp>>

cacheVars == <<redis, genResp, cache_service>>

rateVars == <<clock, requests, seen, rlResp>>

exportVars == <<queue, next_job, export_status, batch, wcur, wevent,
                redeliveries, completions, file_cache, exportResp>>

queryVars == <<query_text, query_variant, normalized>>

retrieveVars == <<retrieved, fused>>

stickyVars == <<session_metadata, sticky_history, stickyResp>>

streamVars == <<sse, websocket>>

prodVars == <<limiter_hits, http_requests, prodResp>>

metricsVars == <<metrics_store, monResp>>

appVars == <<app_phase, startup_complete, middleware_stack, cleanup_task, rag_health, queue_workers, answered, appResp>>

concVars == <<in_flight>>

turnsVars == <<turn_pc, turn_session, event_loop, session_objects, cache_ref, stored_count, stored_messages, turn_result, write_log, base_count>>

traceVars == <<current_trace, trace_pc, recordings, trace_log>>

workerVars == <<pgmq, polled, hidden_groups, job_state>>

vars == <<sessVars, cacheVars, rateVars, exportVars, queryVars, retrieveVars, stickyVars, streamVars, prodVars, metricsVars, appVars, concVars, turnsVars, traceVars, workerVars>>

----------------------------------------------------------------------------
\* Bounds of the model

MaxTime == 32
TickHours == 8
MaxTurns == 1
MaxPending == 1
MaxCacheEntries == 2
RequestsPerMinute == 2
MaxRequests == 4
MaxClock == 240
TicksPerSecond == 2
MaxJobs == 2
MaxRedeliveries == 1

Users == {"u1", "u2"}
SessionIds == {"s1"}
NoOne == "none"

----------------------------------------------------------------------------
\* Python dict helpers

Put(d, k, v) == [x \in (DOMAIN d) \cup {k} |-> IF x = k THEN v ELSE d[x]]

Del(d, k) == [x \in (DOMAIN d) \ {k} |-> d[x]]

Empty == [x \in {} |-> 0]

----------------------------------------------------------------------------
\* Conversation manager

SessionTimeoutHours == 24

SessionStatus == {"active", "paused", "completed", "archived"}

ConversationSession(u) ==
    [user_id |-> u, status |-> "active", last_activity |-> now,
     message_count |-> 0]

\* _update_session_in_db: UPDATE ... WHERE id = sid; True iff a row came back
update_session_rows(rows, sid, s, dbOk) ==
    IF dbOk /\ sid \in DOMAIN rows
    THEN [rows EXCEPT ![sid] = [@ EXCEPT !.last_activity = s.last_activity,
                                         !.message_count = s.message_count,
                                         !.status = s.status]]
    ELSE rows

update_session_ok(rows, sid, dbOk) == dbOk /\ sid \in DOMAIN rows

\* _store_session_in_db: INSERT; a failure is logged and False is returned
store_session_rows(rows, sid, s, dbOk) ==
    IF dbOk /\ sid \notin DOMAIN rows THEN Put(rows, sid, s) ELSE rows

\* _create_new_session: the result of the insert is not looked at
create_new_session(u, sid, dbOk) ==
    LET s == ConversationSession(u) IN
    [ok |-> TRUE,
     cache |-> Put(active_sessions, sid, s),
     rows |-> store_session_rows(chat_sessions, sid, s, dbOk)]

\* get_or_create_session
get_or_create_session(u, sid, dbOk) ==
    IF sid \in DOMAIN active_sessions
    THEN [ok |-> TRUE,
          cache |-> [active_sessions EXCEPT ![sid].last_activity = now],
          rows |-> chat_sessions]
    ELSE IF sid \in DOMAIN chat_sessions
    THEN IF chat_sessions[sid].user_id # u
         THEN [ok |-> FALSE, cache |-> active_sessions, rows |-> chat_sessions]
         ELSE LET s == [chat_sessions[sid] EXCEPT !.last_activity = now] IN
              [ok |-> TRUE,
               cache |-> Put(active_sessions, sid, s),
               rows |-> update_session_rows(chat_sessions, sid, s, dbOk)]
    ELSE create_new_session(u, sid, dbOk)

\* get_session: cache first, then the store; the set is empty for None
get_session(sid) ==
    IF sid \in DOMAIN active_sessions THEN {active_sessions[sid]}
    ELSE IF sid \in DOMAIN chat_sessions THEN {chat_sessions[sid]}
    ELSE {}

Response(op, u, sid, code) == [op |-> op, user |-> u, sid |-> sid, code |-> code]

----------------------------------------------------------------------------
\* Session routes and the chat route's use of the conversation manager

\* POST /sessions: a fresh uuid4, then get_or_create_session
create_session(u, sid, dbOk) ==
    /\ sid \notin DOMAIN active_sessions
    /\ sid \notin DOMAIN chat_sessions
    /\ LET r == get_or_create_session(u, sid, dbOk) IN
       /\ active_sessions' = r.cache
       /\ chat_sessions' = r.rows
       /\ resp' = Response("create", u, sid, 200)
    /\ UNCHANGED <<now, chat_messages, background_tasks>>

\* POST /chat: get_or_create_session, generation, add_message scheduled as a
\* background task when nothing raised on the way
chat_message(u, sid, dbOk, genOk) ==
    /\ Cardinality(background_tasks) < MaxPending
    /\ chat_messages[sid] < 2 * MaxTurns
    /\ \A s \in get_session(sid) : s.message_count < 2 * MaxTurns
    /\ LET r == get_or_create_session(u, sid, dbOk) IN
       /\ active_sessions' = r.cache
       /\ chat_sessions' = r.rows
       /\ background_tasks' =
            IF r.ok /\ genOk
            THEN background_tasks \cup {[user |-> u, sid |-> sid]}
            ELSE background_tasks
       /\ resp' = Response("chat", u, sid, IF r.ok /\ genOk THEN 200 ELSE 500)
    /\ UNCHANGED <<now, chat_messages>>

\* add_message, run as the background task of a chat turn
add_message(t, msgOk, dbOk) ==
    /\ t \in background_tasks
    /\ background_tasks' = background_tasks \ {t}
    /\ IF get_session(t.sid) = {}
       THEN /\ resp' = Response("add_message", t.user, t.sid, 404)
            /\ UNCHANGED <<active_sessions, chat_sessions, chat_messages>>
       ELSE LET old == CHOOSE s \in get_session(t.sid) : TRUE
                s == [old EXCEPT !.message_count = @ + 2,
                                 !.last_activity = now]
            IN
            /\ chat_messages' =
                 IF msgOk THEN [chat_messages EXCEPT ![t.sid] = @ + 2]
                 ELSE chat_messages
            /\ chat_sessions' = update_session_rows(chat_sessions, t.sid, s, dbOk)
            /\ active_sessions' = Put(active_sessions, t.sid, s)
            /\ resp' = Response("add_message", t.user, t.sid, 200)
    /\ UNCHANGED now

\* GET /sessions/{id}
get_session_route(u, sid) ==
    /\ resp' = Response("get", u, sid,
                 IF get_session(sid) = {} THEN 404
                 ELSE IF \E s \in get_session(sid) : s.user_id # u THEN 403
                 ELSE 200)
    /\ UNCHANGED <<now, active_sessions, chat_sessions, chat_messages,
                   background_tasks>>

\* PUT /sessions/{id}: the session object is changed before the store is
\* written, so a cached session is changed even when the write fails
update_session(u, sid, newStatus, dbOk) ==
    /\ IF get_session(sid) = {}
       THEN /\ resp' = Response("update", u, sid, 404)
            /\ UNCHANGED <<active_sessions, chat_sessions>>
       ELSE LET old == CHOOSE s \in get_session(sid) : TRUE
                s == [old EXCEPT !.status = IF newStatus = "none" THEN @
                                            ELSE newStatus,
                                 !.last_activity = now]
                success == update_session_ok(chat_sessions, sid, dbOk)
            IN
            IF old.user_id # u
            THEN /\ resp' = Response("update", u, sid, 403)
                 /\ UNCHANGED <<active_sessions, chat_sessions>>
            ELSE /\ chat_sessions' = update_session_rows(chat_sessions, sid, s, dbOk)
                 /\ active_sessions' =
                      IF success \/ sid \in DOMAIN active_sessions
                      THEN Put(active_sessions, sid, s)
                      ELSE active_sessions
                 /\ resp' = Response("update", u, sid,
                                     IF success THEN 200 ELSE 500)
    /\ UNCHANGED <<now, chat_messages, background_tasks>>

\* _delete_session_from_db: the messages first, then the session row; any
\* exception is logged and False is returned.  outcome names the statement
\* that raised, if one did.
delete_session_msgs(sid, outcome) ==
    IF outcome = "msgs_fail" THEN chat_messages
    ELSE [chat_messages EXCEPT ![sid] = 0]

delete_session_rows(sid, outcome) ==
    IF outcome = "ok" THEN Del(chat_sessions, sid) ELSE chat_sessions

delete_session_ok(sid, outcome) ==
    outcome = "ok" /\ sid \in DOMAIN chat_sessions

\* DELETE /sessions/{id} -> ConversationManager.delete_session
delete_session(u, sid, outcome) ==
    /\ IF get_session(sid) = {} \/ \E s \in get_session(sid) : s.user_id # u
       THEN /\ resp' = Response("delete", u, sid, 404)
            /\ UNCHANGED <<active_sessions, chat_sessions, chat_messages>>
       ELSE /\ chat_messages' = delete_session_msgs(sid, outcome)
            /\ chat_sessions' = delete_session_rows(sid, outcome)
            /\ active_sessions' = Del(active_sessions, sid)
            /\ resp' = Response("delete", u, sid,
                          IF delete_session_ok(sid, outcome) THEN 200 ELSE 404)
    /\ UNCHANGED <<now, background_tasks>>

\* cleanup_expired_sessions: the cache is swept, then the store's active rows
\* older than the cutoff are archived; a store failure leaves the cache swept
Expired(s) == now - s.last_activity > SessionTimeoutHours

cleanup_cache ==
    [x \in {y \in DOMAIN active_sessions : ~Expired(active_sessions[y])}
        |-> active_sessions[x]]

cleanup_rows(dbOk) ==
    IF dbOk
    THEN [x \in DOMAIN chat_sessions |->
            IF /\ chat_sessions[x].last_activity < now - SessionTimeoutHours
               /\ chat_sessions[x].status = "active"
            THEN [chat_sessions[x] EXCEPT !.status = "archived"]
            ELSE chat_sessions[x]]
    ELSE chat_sessions

cleanup_expired_sessions(dbOk) ==
    /\ active_sessions' = cleanup_cache
    /\ chat_sessions' = cleanup_rows(dbOk)
    /\ resp' = Response("cleanup", NoOne, NoOne, IF dbOk THEN 200 ELSE 500)
    /\ UNCHANGED <<now, chat_messages, background_tasks>>

\* the clock
Tick ==
    /\ now + TickHours <= MaxTime
    /\ now' = now + TickHours
    /\ resp' = Response("tick", NoOne, NoOne, 200)
    /\ UNCHANGED <<active_sessions, chat_sessions, chat_messages,
                   background_tasks>>


----------------------------------------------------------------------------
\* Response cache (services/redis_cache.py) and the model router's use of it.
\* A message is a sequence of tokens: words, the blank " " and punctuation.

Lower(tok) ==
    CASE tok = "MY COMPANY" -> "my company"
      [] tok = "HELLO" -> "hello"
      [] tok = "SWOT" -> "swot"
      [] OTHER -> tok

IsSpace(tok) == tok = " "

Punctuation == {"?", "!", ".", ",", ":", ";"}

RECURSIVE MapLower(_)
MapLower(q) == IF q = <<>> THEN <<>> ELSE <<Lower(Head(q))>> \o MapLower(Tail(q))

\* str.split(): the maximal runs of non-blank tokens
RECURSIVE Split(_)
Split(q) ==
    IF q = <<>> THEN <<>>
    ELSE IF IsSpace(Head(q)) THEN Split(Tail(q))
    ELSE LET rest == Split(Tail(q)) IN
         IF Len(q) > 1 /\ ~IsSpace(q[2])
         THEN <<<<Head(q)>> \o Head(rest)>> \o Tail(rest)
         ELSE <<<<Head(q)>>>> \o rest

\* " ".join(words)
RECURSIVE JoinBlank(_)
JoinBlank(ws) ==
    IF ws = <<>> THEN <<>>
    ELSE IF Len(ws) = 1 THEN Head(ws)
    ELSE Head(ws) \o <<" ">> \o JoinBlank(Tail(ws))

RECURSIVE RemovePunctuation(_)
RemovePunctuation(q) ==
    IF q = <<>> THEN <<>>
    ELSE IF Head(q) \in Punctuation THEN RemovePunctuation(Tail(q))
    ELSE <<Head(q)>> \o RemovePunctuation(Tail(q))

IsPrefix(p, q) == Len(p) <= Len(q) /\ SubSeq(q, 1, Len(p)) = p

\* str.replace(old, new): left to right, non-overlapping
RECURSIVE Replace(_, _, _)
Replace(q, old, new) ==
    IF q = <<>> THEN <<>>
    ELSE IF IsPrefix(old, q)
    THEN new \o Replace(SubSeq(q, Len(old) + 1, Len(q)), old, new)
    ELSE <<Head(q)>> \o Replace(Tail(q), old, new)

\* phrase_variations, in the dict's order
PhraseVariations == <<
    [old |-> <<"swot", " ", "analysis">>, new |-> <<"swot", " ", "analysis">>],
    [old |-> <<"swot", " ", "analyse">>, new |-> <<"swot", " ", "analysis">>],
    [old |-> <<"swot", " ", "framework">>, new |-> <<"swot", " ", "analysis">>],
    [old |-> <<"porter", " ", "five forces">>, new |-> <<"porter", " ", "five forces">>],
    [old |-> <<"porters", " ", "five forces">>, new |-> <<"porter", " ", "five forces">>],
    [old |-> <<"porter's", " ", "five forces">>, new |-> <<"porter", " ", "five forces">>],
    [old |-> <<"mckinsey", " ", "7s">>, new |-> <<"mckinsey", " ", "7s">>],
    [old |-> <<"mckinsey", " ", "seven s">>, new |-> <<"mckinsey", " ", "7s">>],
    [old |-> <<"mckinsey", " ", "framework">>, new |-> <<"mckinsey", " ", "7s">>] >>

RECURSIVE ApplyVariations(_, _)
ApplyVariations(q, i) ==
    IF i > Len(PhraseVariations) THEN q
    ELSE ApplyVariations(
            Replace(q, PhraseVariations[i].old, PhraseVariations[i].new), i + 1)

\* _normalize_query
normalize_query(q) ==
    ApplyVariations(RemovePunctuation(JoinBlank(Split(MapLower(q)))), 1)

\* the messages the requests of the model carry
Messages ==
    { <<"my company">>, <<"MY COMPANY", "?">>, <<" ", "my company">>,
      <<"hello">>, <<"hello", " ", "?", " ", "hello">>,
      <<"swot", " ", "analyse">>, <<"SWOT", " ", "analysis">> }

\* normalize_query on those messages, evaluated once
NormalizeTable == [m \in Messages |-> normalize_query(m)]

FrameworkKeywords ==
    {"swot", "porter", "porters", "porter's", "five forces", "mckinsey", "7s",
     "bcg matrix", "ansoff", "pestel", "framework", "analysis", "strategic"}

UserSpecificKeywords ==
    {"my company", "my business", "our company", "our business", "we are",
     "we have", "our revenue", "my startup"}

Contains(q, words) == \E i \in 1..Len(q) : Lower(q[i]) \in words

\* ModelRouter._determine_cache_type
determine_cache_type(message, framework) ==
    IF framework # "none" \/ Contains(message, FrameworkKeywords)
    THEN "framework"
    ELSE IF Contains(message, UserSpecificKeywords) THEN "user_specific"
    ELSE "general"

\* CACHE_CONFIGS[cache_type].prefix
CachePrefix(cache_type) ==
    CASE cache_type = "framework" -> "fw:"
      [] cache_type = "general" -> "gq:"
      [] cache_type = "user_specific" -> "us:"
      [] OTHER -> "rag:"

\* _generate_cache_key: the prefix and "|".join(key_components); the md5 digest
\* of the joined text is taken to be collision free
generate_cache_key(query, cache_type, persona, framework, user_id) ==
    <<CachePrefix(cache_type)>> \o NormalizeTable[query] \o <<"|", persona>>
      \o (IF framework # "none" THEN <<"|", framework>> ELSE <<>>)
      \o (IF user_id # "none" /\ cache_type = "user_specific"
          THEN <<"|", user_id>> ELSE <<>>)

\* the keywords that make generate_response fetch framework context itself
RetrievalKeywords ==
    {"swot", "porter", "five forces", "mckinsey", "7s", "analysis", "framework",
     "strategy"}

\* What the surroundings do to one generate_response call.  get: the Redis GET
\* works ("ok"), raises ("error") or returns bytes that do not parse
\* ("corrupt"); context: the route passed a non-empty context; model: the model
\* call returns; set: the Redis SETEX works (read only after a model reply).
EnvOutcomes ==
    {e \in [get : {"ok", "error", "corrupt"}, context : BOOLEAN,
            model : BOOLEAN, set : BOOLEAN] : e.model \/ ~e.set}

\* what a generate_response call answered and which of its stages ran
GenResponse(route, u, cache_type, hit, for_user, code, available, retrieval, worked, cache_write) ==
    [route |-> route, user |-> u, cache_type |-> cache_type, hit |-> hit,
     for_user |-> for_user, code |-> code, reply_available |-> available,
     retrieval |-> retrieval, analysis |-> worked, model_call |-> worked,
     cache_write |-> cache_write]

\* variant of generate_response that looks the cache up but does not return on
\* a hit: it goes on to the model and writes the cache again
generate_response_no_return(route, u, message, persona, framework, user_id, env) ==
    LET cache_type == determine_cache_type(message, framework)
        key == generate_cache_key(message, cache_type, persona, framework, user_id)
        hit == env.get = "ok" /\ key \in DOMAIN redis
        retrieval == ~env.context /\ Contains(message, RetrievalKeywords)
    IN
    /\ cache_service = "ready"
    /\ key \in DOMAIN redis \/ Cardinality(DOMAIN redis) < MaxCacheEntries
    /\ genResp' = GenResponse(route, u, cache_type, hit,
                              IF hit THEN redis[key].for_user ELSE u,
                              200, TRUE, retrieval, TRUE, TRUE)
    /\ redis' = Put(redis, key, [for_user |-> u])
    /\ UNCHANGED cache_service

\* ModelRouter.generate_response for caller u; user_id is the argument the
\* route passes.  get_cached_response treats a Redis error as a miss and
\* deletes an entry that does not parse; cache_response and
\* _cache_model_response swallow a failed write.
generate_response(route, u, message, persona, framework, user_id, env) ==
    LET cache_type == determine_cache_type(message, framework)
        key == generate_cache_key(message, cache_type, persona, framework, user_id)
        present == key \in DOMAIN redis
        hit == env.get = "ok" /\ present
        after_get == IF env.get = "corrupt" /\ present THEN Del(redis, key)
                     ELSE redis
        retrieval == ~env.context /\ Contains(message, RetrievalKeywords)
    IN
    /\ cache_service = "ready"
    /\ present \/ Cardinality(DOMAIN redis) < MaxCacheEntries
    /\ IF hit
       THEN /\ genResp' = GenResponse(route, u, cache_type, TRUE,
                                      redis[key].for_user, 200, TRUE,
                                      FALSE, FALSE, FALSE)
            /\ UNCHANGED redis
       ELSE IF ~env.model
       THEN /\ genResp' = GenResponse(route, u, cache_type, FALSE, NoOne, 500,
                                      FALSE, retrieval, TRUE, FALSE)
            /\ redis' = after_get
       ELSE /\ genResp' = GenResponse(route, u, cache_type, FALSE, u, 200,
                                      TRUE, retrieval, TRUE, TRUE)
            /\ redis' = IF env.set THEN Put(after_get, key, [for_user |-> u])
                        ELSE after_get
    /\ UNCHANGED cache_service

\* POST /chat: generate_response is called without user_id
chat_generate(u, message, persona, framework, env) ==
    generate_response("chat", u, message, persona, framework, "none", env)

\* POST /analysis/swot: senior partner, framework swot, user_id passed
swot_analysis(u, message, env) ==
    generate_response("swot", u, message, "senior_partner", "swot", u, env)

\* services/redis_cache.py is imported: redis_cache = RedisCacheService();
\* the constructor pings Redis and raises when the ping fails, and the import
\* of the model router and of every route on top of it fails with it
load_redis_cache(pingOk) ==
    /\ cache_service = "unloaded"
    /\ cache_service' = IF pingOk THEN "ready" ELSE "import_failed"
    /\ UNCHANGED <<redis, genResp>>

\* a request to a server whose application module could not be imported:
\* nothing answers, whatever the model would have replied
request_unserved(route, u) ==
    /\ cache_service = "import_failed"
    /\ genResp' = GenResponse(route, u, "general", FALSE, NoOne, 503, TRUE,
                              FALSE, FALSE, FALSE)
    /\ UNCHANGED <<redis, cache_service>>

\* a key's TTL runs out
expire_key(key) ==
    /\ key \in DOMAIN redis
    /\ redis' = Del(redis, key)
    /\ UNCHANGED <<genResp, cache_service>>

Personas == {"partner", "associate"}

Frameworks == {"none", "swot"}


----------------------------------------------------------------------------
\* Rate limiting middleware (api/middleware/rate_limiting.py)

WindowSeconds == 60

Window == WindowSeconds * TicksPerSecond

IPs == {"ip1", "ip2"}

ExcludedPaths == {"/", "/health", "/docs", "/redoc", "/api/v1/health",
                  "/api/v1/metrics"}

Paths == {"/health", "/api/v1/chat"}

\* variant of InWindow that still counts a request exactly one window old
InWindow_inclusive(t, req_time) == t - req_time <= Window

\* the list comprehension's condition: current_time - req_time < 60
InWindow(t, req_time) == t - req_time < Window

RECURSIVE Filter(_, _)
Filter(ts, t) ==
    IF ts = <<>> THEN <<>>
    ELSE IF InWindow(t, Head(ts)) THEN <<Head(ts)>> \o Filter(Tail(ts), t)
    ELSE Filter(Tail(ts), t)

RECURSIVE Min(_)
Min(ts) ==
    IF Len(ts) = 1 THEN Head(ts)
    ELSE LET m == Min(Tail(ts)) IN IF Head(ts) < m THEN Head(ts) ELSE m

Max2(a, b) == IF a > b THEN a ELSE b

\* max(1, int(60 - (current_time - oldest_request)))
retry_after(ts, t) ==
    LET oldest == IF ts = <<>> THEN t ELSE Min(ts) IN
    Max2(1, (Window - (t - oldest)) \div TicksPerSecond)

RateResponse(ip, path, t, status, fwd, remaining, retry) ==
    [ip |-> ip, path |-> path, t |-> t, status |-> status, forwarded |-> fwd,
     remaining |-> remaining, retry_after |-> retry]

NoHeader == -1

RECURSIVE SumLen(_, _)
SumLen(f, S) ==
    IF S = {} THEN 0
    ELSE LET x == CHOOSE y \in S : TRUE IN Len(f[x]) + SumLen(f, S \ {x})

TotalSeen == SumLen(seen, IPs)

RECURSIVE SumCount(_, _)
SumCount(f, S) ==
    IF S = {} THEN 0
    ELSE LET x == CHOOSE y \in S : TRUE IN f[x] + SumCount(f, S \ {x})

\* dispatch; downOk: whether call_next returns a response or raises
dispatch(ip, path, downOk) ==
    IF path \in ExcludedPaths
    THEN /\ rlResp' = RateResponse(ip, path, clock, IF downOk THEN 200 ELSE 500,
                                   TRUE, NoHeader, NoHeader)
         /\ UNCHANGED <<clock, requests, seen>>
    ELSE LET cleaned == Filter(requests[ip], clock) IN
         /\ TotalSeen < MaxRequests
         /\ IF Len(cleaned) >= RequestsPerMinute
            THEN /\ requests' = [requests EXCEPT ![ip] = cleaned]
                 /\ seen' = [seen EXCEPT ![ip] = Append(@, [t |-> clock, fwd |-> FALSE])]
                 /\ rlResp' = RateResponse(ip, path, clock, 429, FALSE, 0,
                                           retry_after(cleaned, clock))
            ELSE /\ requests' = [requests EXCEPT ![ip] = Append(cleaned, clock)]
                 /\ seen' = [seen EXCEPT ![ip] = Append(@, [t |-> clock, fwd |-> TRUE])]
                 /\ rlResp' =
                      IF downOk
                      THEN RateResponse(ip, path, clock, 200, TRUE,
                              Max2(0, RequestsPerMinute - (Len(cleaned) + 1)),
                              NoHeader)
                      ELSE RateResponse(ip, path, clock, 500, TRUE, NoHeader,
                                        NoHeader)
         /\ UNCHANGED clock

\* one round of _cleanup_old_requests
cleanup_old_requests ==
    /\ requests' = [ip \in IPs |-> Filter(requests[ip], clock)]
    /\ UNCHANGED <<clock, seen, rlResp>>

ClockSteps == {60, 119}

clock_tick(d) ==
    /\ clock + d <= MaxClock
    /\ clock' = clock + d
    /\ UNCHANGED <<requests, seen, rlResp>>


----------------------------------------------------------------------------
\* Export queue (services/queue_service.py), export service
\* (services/export_service.py) and export routes (api/routes/exports.py)

ReadQty == 5

\* the export_types the chat route passes (also the default of the parameter)
ExportTypeLists == {<<"excel", "pdf", "powerpoint">>}

\* str(e) of the exception a renderer raised
ErrorTexts == {"render failed"}

Credentials == {"valid", "none"}

NoJob == 0

Idle == [pc |-> "idle", pos |-> 0, urls |-> {}]

ExportResponse(op, cred, code, status, job_id, served, urls) ==
    [op |-> op, cred |-> cred, code |-> code, status |-> status,
     job_id |-> job_id, served |-> served, export_urls |-> urls]

\* The worker runs on the server's event loop and gives it up only in the
\* asyncio.sleep between polls (every helper it awaits calls the blocking
\* client): handlers and other tasks run while the worker sleeps there.
WorkerAsleep == wcur.pc = "idle" /\ batch = <<>>

\* update_export_status: only a tracked job is changed; export_urls and error
\* are written only when given (a non-empty dict, a non-empty string)
update_export_status(st, job_id, status, urls, error) ==
    IF job_id \in DOMAIN st
    THEN [st EXCEPT ![job_id] =
            [@ EXCEPT !.status = status,
                      !.export_urls = IF urls # {} THEN urls ELSE @,
                      !.error = IF error # "" THEN error ELSE @]]
    ELSE st

\* enqueue_export_job; sendOk: whether send_to_queue got a message id back.
\* The job id ends in the enqueue time, the message id is the queue's serial.
enqueue_export_job(types, sendOk) ==
    /\ WorkerAsleep
    /\ next_job < MaxJobs
    /\ next_job' = next_job + 1
    /\ LET job_id == next_job + 1 IN
       IF sendOk
       THEN /\ queue' = Put(queue, job_id,
                            [job_id |-> job_id, export_types |-> types,
                             visible |-> TRUE, read_ct |-> 0])
            /\ export_status' = Put(export_status, job_id,
                                    [status |-> "queued", msg_id |-> job_id,
                                     export_urls |-> {}, error |-> ""])
            /\ exportResp' = ExportResponse("enqueue", "valid", 200, "queued",
                                            job_id, FALSE, {})
       ELSE /\ exportResp' = ExportResponse("enqueue", "valid", 200, "failed",
                                            NoJob, FALSE, {})
            /\ UNCHANGED <<queue, export_status>>
    /\ UNCHANGED <<batch, wcur, wevent, redeliveries, completions, file_cache>>

\* read_from_queue(EXPORT, qty): the visible messages, oldest first
RECURSIVE VisibleUpTo(_, _)
VisibleUpTo(m, n) ==
    IF m > MaxJobs \/ n = 0 THEN <<>>
    ELSE IF m \in DOMAIN queue /\ queue[m].visible
    THEN <<m>> \o VisibleUpTo(m + 1, n - 1)
    ELSE VisibleUpTo(m + 1, n)

InSeq(x, sq) == \E i \in 1..Len(sq) : sq[i] = x

\* process_export_queue: the read at the top of the loop; every message read
\* is hidden for the visibility timeout and its read count goes up
worker_read ==
    /\ wcur.pc = "idle"
    /\ batch = <<>>
    /\ LET ids == VisibleUpTo(1, ReadQty) IN
       /\ ids # <<>>
       /\ batch' = [i \in 1..Len(ids) |->
                      [msg_id |-> ids[i], job_id |-> queue[ids[i]].job_id,
                       export_types |-> queue[ids[i]].export_types,
                       delivery |-> queue[ids[i]].read_ct + 1]]
       /\ queue' = [m \in DOMAIN queue |->
                      IF InSeq(m, ids)
                      THEN [queue[m] EXCEPT !.visible = FALSE, !.read_ct = @ + 1]
                      ELSE queue[m]]
       /\ wevent' = [kind |-> "read", job_id |-> NoJob, msg_id |-> 0]
    /\ UNCHANGED <<next_job, export_status, wcur, redeliveries, completions,
                   file_cache,
                   exportResp>>

\* variant of worker_begin that starts the turn without writing PROCESSING
worker_begin_silent ==
    /\ wcur.pc = "idle"
    /\ batch # <<>>
    /\ LET msg == Head(batch) IN
       /\ wcur' = [pc |-> "render", pos |-> 1, urls |-> {}]
       /\ wevent' = [kind |-> "begin", job_id |-> msg.job_id,
                     msg_id |-> msg.msg_id]
    /\ UNCHANGED <<queue, next_job, export_status, batch, redeliveries,
                   completions,
                   file_cache, exportResp>>

\* process_export_queue: a message's turn starts, status PROCESSING
worker_begin ==
    /\ wcur.pc = "idle"
    /\ batch # <<>>
    /\ LET msg == Head(batch) IN
       /\ export_status' = update_export_status(export_status, msg.job_id,
                                                "processing", {}, "")
       /\ wcur' = [pc |-> "render", pos |-> 1, urls |-> {}]
       /\ wevent' = [kind |-> "begin", job_id |-> msg.job_id,
                     msg_id |-> msg.msg_id]
    /\ UNCHANGED <<queue, next_job, batch, redeliveries, completions,
                   file_cache, exportResp>>

\* variant of worker_render that files the powerpoint URL under the key "ppt"
worker_render_ppt_key ==
    /\ wcur.pc = "render"
    /\ wcur.pos <= Len(Head(batch).export_types)
    /\ LET msg == Head(batch)
           t == msg.export_types[wcur.pos]
           file_id == <<msg.job_id, t, msg.delivery>>
       IN
       /\ file_cache' = Put(file_cache, file_id, [type |-> t, old |-> FALSE])
       /\ wcur' = [wcur EXCEPT !.pos = @ + 1,
                               !.urls = @ \cup {IF t = "powerpoint" THEN "ppt" ELSE t}]
       /\ wevent' = [kind |-> "render", job_id |-> msg.job_id,
                     msg_id |-> msg.msg_id]
    /\ UNCHANGED <<queue, next_job, export_status, batch, redeliveries,
                   completions,
                   exportResp>>

\* process_export_queue: the next export type is rendered; the renderer writes
\* a file and caches it under a new file id
worker_render ==
    /\ wcur.pc = "render"
    /\ wcur.pos <= Len(Head(batch).export_types)
    /\ LET msg == Head(batch)
           t == msg.export_types[wcur.pos]
           file_id == <<msg.job_id, t, msg.delivery>>
       IN
       /\ file_cache' = Put(file_cache, file_id, [type |-> t, old |-> FALSE])
       /\ wcur' = [wcur EXCEPT !.pos = @ + 1, !.urls = @ \cup {t}]
       /\ wevent' = [kind |-> "render", job_id |-> msg.job_id,
                     msg_id |-> msg.msg_id]
    /\ UNCHANGED <<queue, next_job, export_status, batch, redeliveries,
                   completions,
                   exportResp>>

\* variant of worker_fail that acknowledges (deletes) the failed message
worker_fail_acks(error) ==
    /\ wcur.pc = "render"
    /\ wcur.pos <= Len(Head(batch).export_types)
    /\ LET msg == Head(batch) IN
       /\ export_status' = update_export_status(export_status, msg.job_id,
                                                "failed", {}, error)
       /\ queue' = Del(queue, msg.msg_id)
       /\ wevent' = [kind |-> "failed", job_id |-> msg.job_id,
                     msg_id |-> msg.msg_id]
    /\ wcur' = Idle
    /\ batch' = Tail(batch)
    /\ UNCHANGED <<next_job, redeliveries, completions, file_cache, exportResp>>

\* process_export_queue: the renderer of the next export type raises; status
\* FAILED with str(e), the message is left in the queue
worker_fail(error) ==
    /\ wcur.pc = "render"
    /\ wcur.pos <= Len(Head(batch).export_types)
    /\ LET msg == Head(batch) IN
       /\ export_status' = update_export_status(export_status, msg.job_id,
                                                "failed", {}, error)
       /\ wevent' = [kind |-> "failed", job_id |-> msg.job_id,
                     msg_id |-> msg.msg_id]
    /\ wcur' = Idle
    /\ batch' = Tail(batch)
    /\ UNCHANGED <<queue, next_job, redeliveries, completions, file_cache,
                   exportResp>>

\* delete_from_queue: an RPC failure is logged and False is returned
delete_from_queue(q, msg_id, rpcOk) == IF rpcOk THEN Del(q, msg_id) ELSE q

\* process_export_queue: every type is rendered; status COMPLETED with the
\* urls, then the message is deleted (the result of the delete is not read)
worker_complete(rpcOk) ==
    /\ wcur.pc = "render"
    /\ wcur.pos > Len(Head(batch).export_types)
    /\ LET msg == Head(batch) IN
       /\ export_status' = update_export_status(export_status, msg.job_id,
                                                "completed", wcur.urls, "")
       /\ queue' = delete_from_queue(queue, msg.msg_id, rpcOk)
       /\ completions' = [completions EXCEPT ![msg.job_id] = @ + 1]
       /\ wevent' = [kind |-> "completed", job_id |-> msg.job_id,
                     msg_id |-> msg.msg_id]
    /\ wcur' = Idle
    /\ batch' = Tail(batch)
    /\ UNCHANGED <<next_job, redeliveries, file_cache, exportResp>>

\* the queue: a hidden message's visibility timeout runs out
visibility_timeout(m) ==
    /\ m \in DOMAIN queue
    /\ ~queue[m].visible
    /\ redeliveries < MaxRedeliveries
    /\ queue' = [queue EXCEPT ![m].visible = TRUE]
    /\ redeliveries' = redeliveries + 1
    /\ UNCHANGED <<next_job, export_status, batch, wcur, wevent, completions,
                   file_cache, exportResp>>

\* get_current_user: 401 unless the bearer token is valid
get_current_user(cred) == cred = "valid"

\* GET /export/status/{job_id} (chat.py), behind get_current_user
get_export_status(cred, job_id) ==
    /\ WorkerAsleep
    /\ exportResp' =
         IF ~get_current_user(cred)
         THEN ExportResponse("status", cred, 401, "none", job_id, FALSE, {})
         ELSE IF job_id \in DOMAIN export_status
         THEN ExportResponse("status", cred, 200, export_status[job_id].status,
                             job_id, FALSE, export_status[job_id].export_urls)
         ELSE ExportResponse("status", cred, 200, "not_found", job_id, FALSE, {})
    /\ UNCHANGED <<queue, next_job, export_status, batch, wcur, wevent,
                   redeliveries, completions, file_cache>>

\* ExportService.get_file_path: the cached path, if the file is still there
get_file_path(file_id) == file_id \in DOMAIN file_cache

\* GET /export/excel|pdf|ppt/{file_id}: download_excel, download_pdf and
\* download_powerpoint differ in the file name and media type they send only;
\* none depends on get_current_user
download(kind, cred, file_id) ==
    /\ WorkerAsleep
    /\ exportResp' =
         IF get_file_path(file_id)
         THEN ExportResponse("download", cred, 200, "none", NoJob, TRUE, {})
         ELSE ExportResponse("download", cred, 404, "none", NoJob, FALSE, {})
    /\ UNCHANGED <<queue, next_job, export_status, batch, wcur, wevent,
                   redeliveries, completions, file_cache>>

\* ExportService.cleanup_old_files(max_age_hours=24)
cleanup_old_files_cache ==
    [f \in {g \in DOMAIN file_cache : ~file_cache[g].old} |-> file_cache[f]]

\* DELETE /export/cleanup: no dependency on get_current_user
cleanup_old_files(cred) ==
    /\ WorkerAsleep
    /\ file_cache' = cleanup_old_files_cache
    /\ exportResp' = ExportResponse("cleanup", cred, 200, "none", NoJob, FALSE, {})
    /\ UNCHANGED <<queue, next_job, export_status, batch, wcur, wevent,
                   redeliveries, completions>>

\* more than max_age_hours pass: every cached file is now old
files_age ==
    /\ WorkerAsleep
    /\ \E f \in DOMAIN file_cache : ~file_cache[f].old
    /\ file_cache' = [f \in DOMAIN file_cache |-> [file_cache[f] EXCEPT !.old = TRUE]]
    /\ UNCHANGED <<queue, next_job, export_status, batch, wcur, wevent,
                   redeliveries, completions, exportResp>>

\* a file id that was never issued, or whose file is gone
MissingFile == <<0, "pdf", 0>>

DownloadKinds == {"excel", "pdf", "ppt"}

----------------------------------------------------------------------------
\* Query normalisation on its own: two queries that a caller may pass, and
\* what _normalize_query makes of them.

MaxQueryLen == 4

Upper(tok) ==
    CASE tok = "my company" -> "MY COMPANY"
      [] tok = "hello" -> "HELLO"
      [] tok = "swot" -> "SWOT"
      [] OTHER -> tok

\* the queries the variations start from
BaseQueries ==
    { <<"hello">>, <<"hello", " ", "hello">>, <<"my company", "?">>,
      <<"swot", " ", "analysis">> }

NotNormalized == [first |-> <<"-">>, second |-> <<"-">>, again |-> <<"-">>]

InsertAt(q, i, tok) == SubSeq(q, 1, i - 1) \o <<tok>> \o SubSeq(q, i, Len(q))

RemoveAt(q, i) == SubSeq(q, 1, i - 1) \o SubSeq(q, i + 1, Len(q))

\* a request arrives with query q
submit_query(q) ==
    /\ query_text' = q
    /\ query_variant' = q
    /\ normalized' = NotNormalized

\* the second query changes the letter case of one word
vary_case(i) ==
    /\ i \in 1..Len(query_variant)
    /\ LET tok == query_variant[i]
           other == IF Lower(tok) # tok THEN Lower(tok) ELSE Upper(tok)
       IN /\ other # tok
          /\ query_variant' = [query_variant EXCEPT ![i] = other]
    /\ normalized' = NotNormalized
    /\ UNCHANGED query_text

\* a blank is leading, trailing or repeated at position i of q
ExtraBlankAt(q, i) ==
    IF i = 1 \/ i = Len(q) THEN TRUE ELSE IsSpace(q[i - 1]) \/ IsSpace(q[i + 1])

\* the second query gains or loses a leading, trailing or repeated blank
vary_whitespace(i, insert) ==
    /\ IF insert
       THEN /\ Len(query_variant) < MaxQueryLen
            /\ i \in 1..(Len(query_variant) + 1)
            /\ ExtraBlankAt(InsertAt(query_variant, i, " "), i)
            /\ query_variant' = InsertAt(query_variant, i, " ")
       ELSE /\ i \in 1..Len(query_variant)
            /\ IsSpace(query_variant[i])
            /\ ExtraBlankAt(query_variant, i)
            /\ query_variant' = RemoveAt(query_variant, i)
    /\ normalized' = NotNormalized
    /\ UNCHANGED query_text

\* the second query gains or loses one of the stripped characters
vary_punctuation(i, punct, insert) ==
    /\ IF insert
       THEN /\ Len(query_variant) < MaxQueryLen
            /\ i \in 1..(Len(query_variant) + 1)
            /\ query_variant' = InsertAt(query_variant, i, punct)
       ELSE /\ i \in 1..Len(query_variant)
            /\ query_variant[i] = punct
            /\ query_variant' = RemoveAt(query_variant, i)
    /\ normalized' = NotNormalized
    /\ UNCHANGED query_text

\* the second query uses another listed variant of the phrase at position i
vary_phrase(i, from, to) ==
    /\ PhraseVariations[from].new = PhraseVariations[to].new
    /\ from # to
    /\ i + 2 <= Len(query_variant)
    /\ MapLower(SubSeq(query_variant, i, i + 2)) = PhraseVariations[from].old
    /\ query_variant' = SubSeq(query_variant, 1, i - 1) \o PhraseVariations[to].old
                          \o SubSeq(query_variant, i + 3, Len(query_variant))
    /\ normalized' = NotNormalized
    /\ UNCHANGED query_text

\* both queries are looked up: _normalize_query on each, and once more on
\* the second one's result
normalize_both ==
    /\ query_text # <<>>
    /\ normalized' = [first |-> normalize_query(query_text),
                      second |-> normalize_query(query_variant),
                      again |-> normalize_query(normalize_query(query_variant))]
    /\ UNCHANGED <<query_text, query_variant>>

----------------------------------------------------------------------------
\* Hybrid retrieval (rag_system/retriever.py) over the two corpora
\* (rag_system/supabase_client.py).  A chunk is [id, source_type].

MaxChunks == 2
MaxK == 4

RrfC == 60
FusionK == 10

\* settings.rag_mode
SettingsRagMode == "hybrid"

RagModes == {"local", "global", "hybrid"}

NoProject == "none"

ChunkIds == 1..MaxChunks

\* the ranked lists of at most n elements of S, no element twice
RankedLists(S, n) ==
    UNION { { l \in [1..m -> S] : \A i, j \in 1..m : i # j => l[i] # l[j] } : m \in 0..n }

Take(l, n) == SubSeq(l, 1, IF n < Len(l) THEN n ELSE Len(l))

\* scores are kept exact: 1 / (rank + c) as a fraction
Fraction(n, d) == [num |-> n, den |-> d]

AddFraction(a, b) == Fraction(a.num * b.den + b.num * a.den, a.den * b.den)

GreaterFraction(a, b) == a.num * b.den > b.num * a.den

\* key = (item_id, source_type)
FusionKey(item) == <<item.id, item.source_type>>

\* position of key in the scores dict (a dict keeps insertion order), 0 if absent
IndexOfKey(scores, key) ==
    IF \E i \in 1..Len(scores) : scores[i].key = key
    THEN CHOOSE i \in 1..Len(scores) : scores[i].key = key
    ELSE 0

\* the loop body: scores[key]['score'] += 1 / (rank + c)
AddScore(scores, item, rank) ==
    LET key == FusionKey(item)
        rrf_score == Fraction(1, rank + RrfC)
        i == IndexOfKey(scores, key)
    IN IF i = 0
       THEN Append(scores, [key |-> key, item |-> item,
                            score |-> AddFraction(Fraction(0, 1), rrf_score)])
       ELSE [scores EXCEPT ![i].score = AddFraction(@, rrf_score)]

\* for rank, item in enumerate(rank_list)
RECURSIVE ScoreList(_, _, _)
ScoreList(scores, rank_list, rank) ==
    IF rank >= Len(rank_list) THEN scores
    ELSE ScoreList(AddScore(scores, rank_list[rank + 1], rank), rank_list, rank + 1)

\* for rank_list in ranked_lists
RECURSIVE ScoreLists(_, _)
ScoreLists(scores, ranked_lists) ==
    IF ranked_lists = <<>> THEN scores
    ELSE ScoreLists(ScoreList(scores, Head(ranked_lists), 0), Tail(ranked_lists))

\* a sort that puts equal scores in the opposite of their original order
RECURSIVE InsertByScore_ties_first(_, _)
InsertByScore_ties_first(sorted, e) ==
    IF sorted = <<>> THEN <<e>>
    ELSE IF ~GreaterFraction(Head(sorted).score, e.score) THEN <<e>> \o sorted
    ELSE <<Head(sorted)>> \o InsertByScore_ties_first(Tail(sorted), e)

\* sorted(..., reverse=True) is stable: an entry goes behind every entry whose
\* score is not smaller
RECURSIVE InsertByScore(_, _)
InsertByScore(sorted, e) ==
    IF sorted = <<>> THEN <<e>>
    ELSE IF GreaterFraction(e.score, Head(sorted).score) THEN <<e>> \o sorted
    ELSE <<Head(sorted)>> \o InsertByScore(Tail(sorted), e)

RECURSIVE SortedByScore(_, _)
SortedByScore(sorted, entries) ==
    IF entries = <<>> THEN sorted
    ELSE SortedByScore(InsertByScore(sorted, Head(entries)), Tail(entries))

\* SupabaseClientManager._reciprocal_rank_fusion, for k >= 0
reciprocal_rank_fusion(ranked_lists, k) ==
    LET sorted_items == Take(SortedByScore(<<>>, ScoreLists(<<>>, ranked_lists)), k)
    IN [i \in 1..Len(sorted_items) |-> sorted_items[i].item]

\* rows of a corpus as chunks of one source type
Tagged(rows, source_type) ==
    [i \in 1..Len(rows) |-> [id |-> rows[i], source_type |-> source_type]]

\* search_global_chunks: at most k rows; a failed query gives the empty list
search_global_chunks(rows, k) == Tagged(Take(rows, k), "global")

\* search_tenant_chunks: at most k rows; a failed call gives the empty list
search_tenant_chunks(rows, k) == Tagged(Take(rows, k), "tenant")

\* hybrid_search with settings.rag_mode = hybrid
hybrid_search(global_rows, tenant_rows, k) ==
    IF SettingsRagMode = "global" THEN search_global_chunks(global_rows, k)
    ELSE IF SettingsRagMode = "local" THEN search_tenant_chunks(tenant_rows, k)
    ELSE reciprocal_rank_fusion(
            << search_global_chunks(global_rows, k \div 2),
               search_tenant_chunks(tenant_rows, k \div 2) >>, k)

\* the network calls hybrid_search makes
hybrid_search_calls ==
    IF SettingsRagMode = "global" THEN <<"global_search">>
    ELSE IF SettingsRagMode = "local" THEN <<"tenant_search">>
    ELSE <<"global_search", "tenant_search">>

RetrieveResult(mode, project_id, k, outcome, calls, results) ==
    [mode |-> mode, project_id |-> project_id, k |-> k, outcome |-> outcome,
     calls |-> calls, results |-> results]

\* what the services answer during one retrieve call
RetrieveEnvs ==
    [embedding : BOOLEAN,
     global_rows : RankedLists(ChunkIds, MaxChunks),
     tenant_rows : RankedLists(ChunkIds, MaxChunks)]

\* HybridRetriever.retrieve; mode "none" and k = 0 stand for the defaults
retrieve(project_id, k_arg, mode_arg, env) ==
    LET k == IF k_arg = 0 THEN FusionK ELSE k_arg
        mode == IF mode_arg = "none" THEN SettingsRagMode ELSE mode_arg
        embedded == <<"embedding">>
    IN
    /\ retrieved' =
         IF ~env.embedding
         THEN RetrieveResult(mode, project_id, k, "embedding_error", embedded, <<>>)
         ELSE IF mode \in {"local", "hybrid"} /\ project_id = NoProject
         THEN RetrieveResult(mode, project_id, k, "validation_error", embedded, <<>>)
         ELSE IF mode = "global"
         THEN RetrieveResult(mode, project_id, k, "ok",
                             embedded \o <<"global_search">>,
                             search_global_chunks(env.global_rows, k))
         ELSE IF mode = "local"
         THEN RetrieveResult(mode, project_id, k, "ok",
                             embedded \o <<"tenant_search">>,
                             search_tenant_chunks(env.tenant_rows, k))
         ELSE RetrieveResult(mode, project_id, k, "ok",
                             embedded \o hybrid_search_calls,
                             hybrid_search(env.global_rows, env.tenant_rows, k))
    /\ UNCHANGED fused

MaxRanked == 3

\* the chunks the ranked lists handed to _reciprocal_rank_fusion are made of
FusionChunks ==
    {[id |-> i, source_type |-> "global"] : i \in 1..3}
      \cup {[id |-> i, source_type |-> "tenant"] : i \in 1..2}

\* _reciprocal_rank_fusion applied to two ranked lists
fuse(first, second, k) ==
    /\ fused' = [first |-> first, second |-> second, k |-> k, called |-> TRUE,
                 out |-> reciprocal_rank_fusion(<<first, second>>, k)]
    /\ UNCHANGED retrieved

----------------------------------------------------------------------------
\* Sticky routing (services/enhanced_conversation_manager.py): a counter in
\* the metadata of a chat_sessions row.

MaxStickyTurns == 2
MaxConsumes == 4

ConversationIds == {"c1", "c2"}

StickyKey == "sticky_reasoning_turns"

NewMetadata == Empty

\* metadata.get("sticky_reasoning_turns", 0)
StickyTurns(metadata) == IF StickyKey \in DOMAIN metadata THEN metadata[StickyKey] ELSE 0

\* metadata["sticky_reasoning_turns"] = turns
WithStickyTurns(metadata, turns) ==
    [key \in DOMAIN metadata \cup {StickyKey} |->
        IF key = StickyKey THEN turns ELSE metadata[key]]

NeverSet == [set |-> FALSE, turns |-> 0, consumes |-> 0, failed |-> 0, granted |-> 0]

StickyResponse(op, sid, returned, stored) ==
    [op |-> op, sid |-> sid, returned |-> returned, stored |-> stored]

\* EnhancedConversationManager.create_session
create_conversation(sid, dbOk) ==
    /\ sid \notin DOMAIN session_metadata
    /\ IF dbOk
       THEN session_metadata' =
              [c \in DOMAIN session_metadata \cup {sid} |->
                  IF c = sid THEN NewMetadata ELSE session_metadata[c]]
       ELSE UNCHANGED session_metadata
    /\ stickyResp' = StickyResponse("create", sid, dbOk, dbOk)
    /\ UNCHANGED sticky_history

\* set_sticky_routing: read the row, write the metadata back; any failure is
\* logged and nothing is returned
set_sticky_routing(sid, turns, readOk, writeOk) ==
    LET stored == sid \in DOMAIN session_metadata /\ readOk /\ writeOk IN
    /\ IF stored
       THEN /\ session_metadata' =
                 [session_metadata EXCEPT ![sid] = WithStickyTurns(@, turns)]
            /\ sticky_history' =
                 [sticky_history EXCEPT ![sid] = [NeverSet EXCEPT !.set = TRUE, !.turns = turns]]
       ELSE UNCHANGED <<session_metadata, sticky_history>>
    /\ stickyResp' = StickyResponse("set", sid, FALSE, stored)

\* a consume that wrote the counter back although it had nothing to consume
consume_sticky_routing_below_zero(sid, readOk, writeOk) ==
    LET read == sid \in DOMAIN session_metadata /\ readOk
        sticky_turns == IF read THEN StickyTurns(session_metadata[sid]) ELSE 0
        returned == read /\ writeOk
        h == sticky_history[sid]
    IN
    /\ h.consumes < MaxConsumes
    /\ IF returned
       THEN session_metadata' =
              [session_metadata EXCEPT ![sid] = WithStickyTurns(@, sticky_turns - 1)]
       ELSE UNCHANGED session_metadata
    /\ sticky_history' =
         [sticky_history EXCEPT ![sid] =
             [h EXCEPT !.consumes = @ + 1,
                       !.failed = @ + (IF read /\ writeOk THEN 0 ELSE 1),
                       !.granted = @ + (IF returned THEN 1 ELSE 0)]]
    /\ stickyResp' = StickyResponse("consume", sid, returned, returned)

\* consume_sticky_routing: no row or a failed read returns False; a positive
\* counter is written back one lower and True returned, unless the write fails
consume_sticky_routing(sid, readOk, writeOk) ==
    LET read == sid \in DOMAIN session_metadata /\ readOk
        sticky_turns == IF read THEN StickyTurns(session_metadata[sid]) ELSE 0
        returned == read /\ sticky_turns > 0 /\ writeOk
        h == sticky_history[sid]
    IN
    /\ h.consumes < MaxConsumes
    /\ IF returned
       THEN session_metadata' =
              [session_metadata EXCEPT ![sid] = WithStickyTurns(@, sticky_turns - 1)]
       ELSE UNCHANGED session_metadata
    /\ sticky_history' =
         [sticky_history EXCEPT ![sid] =
             [h EXCEPT !.consumes = @ + 1,
                       !.failed = @ + (IF read /\ (sticky_turns = 0 \/ writeOk) THEN 0 ELSE 1),
                       !.granted = @ + (IF returned THEN 1 ELSE 0)]]
    /\ stickyResp' = StickyResponse("consume", sid, returned, returned)

----------------------------------------------------------------------------
\* Streaming chat (api/routes/chat.py) on top of ModelRouter.stream_response.
\* A text is a sequence of pieces, so that "+=" is concatenation.

MaxStreamChunks == 2
MaxSources == 1

ErrorText == <<"Error generating response">>

\* the chunks stream_response yields: text, a reasoning summary (no content),
\* and the chunk it yields when anything raised
StreamChunks ==
    { [type |-> "content", content |-> <<"a">>],
      [type |-> "content", content |-> <<"b">>],
      [type |-> "reasoning", content |-> <<>>],
      [type |-> "error", content |-> ErrorText] }

\* what one stream_response call yields: the error chunk can only be the last
ChunkStreams ==
    { cs \in UNION { [1..n -> StreamChunks] : n \in 0..MaxStreamChunks } :
        \A i \in 1..Len(cs) : cs[i].type = "error" => i = Len(cs) }

ContextEvent(sources) == [type |-> "context", sources |-> sources, content |-> <<>>]

ContentEvent(chunk) == [type |-> "content", sources |-> 0, content |-> chunk.content]

CompleteEvent == [type |-> "complete", sources |-> 0, content |-> <<>>]

NoStream ==
    [pc |-> "idle", code |-> 200, sources |-> 0, events |-> <<>>, chunks |-> <<>>,
     full_response |-> <<>>, saved |-> FALSE, ai_response |-> <<>>]

SseBusy == sse.pc \in {"open", "streaming", "completed"}

\* stream_chat_message: session and retrieval; an exception there is a 500
stream_chat_message(setupOk, sources) ==
    /\ ~SseBusy
    /\ sse' = IF setupOk
              THEN [NoStream EXCEPT !.pc = "open", !.sources = sources]
              ELSE [NoStream EXCEPT !.pc = "failed", !.code = 500]
    /\ UNCHANGED websocket

\* generate_stream, first yield
stream_context ==
    /\ sse.pc = "open"
    /\ sse' = [sse EXCEPT !.pc = "streaming",
                          !.events = Append(@, ContextEvent(sse.sources))]
    /\ UNCHANGED websocket

StreamEnded == sse.chunks # <<>> /\ sse.chunks[Len(sse.chunks)].type = "error"

\* a loop body that keeps only the last chunk
stream_chunk_overwrites(chunk) ==
    /\ sse.pc = "streaming"
    /\ ~StreamEnded
    /\ Len(sse.chunks) < MaxStreamChunks
    /\ sse' = [sse EXCEPT !.chunks = Append(@, chunk),
                          !.full_response = chunk.content,
                          !.events = Append(@, ContentEvent(chunk))]
    /\ UNCHANGED websocket

\* generate_stream, loop body: full_response += content, then the yield
stream_chunk(chunk) ==
    /\ sse.pc = "streaming"
    /\ ~StreamEnded
    /\ Len(sse.chunks) < MaxStreamChunks
    /\ sse' = [sse EXCEPT !.chunks = Append(@, chunk),
                          !.full_response = @ \o chunk.content,
                          !.events = Append(@, ContentEvent(chunk))]
    /\ UNCHANGED websocket

\* generate_stream, the yield after the loop
stream_complete ==
    /\ sse.pc = "streaming"
    /\ sse' = [sse EXCEPT !.pc = "completed", !.events = Append(@, CompleteEvent)]
    /\ UNCHANGED websocket

\* generate_stream, add_message after the last yield; it returns False when
\* the session is gone, and the rows are there only if the insert worked
stream_save(found, msgOk) ==
    /\ sse.pc = "completed"
    /\ sse' = [sse EXCEPT !.pc = "done",
                          !.saved = found /\ msgOk,
                          !.ai_response = IF found /\ msgOk THEN sse.full_response ELSE <<>>]
    /\ UNCHANGED websocket

\* the client goes away: the generator is cancelled where it stands
stream_disconnect ==
    /\ SseBusy
    /\ sse' = [sse EXCEPT !.pc = "closed"]
    /\ UNCHANGED websocket

\* ---- WS /chat/ws
\* an inbound frame: JSON object or not, its "type", and its "message" (a
\* text, or something that is no string)
Frame(json, type, text, message) ==
    [json |-> json, type |-> type, text |-> text, message |-> message]

NoFrame == Frame("none", "none", FALSE, <<>>)

Frames ==
    { Frame("object", "chat", TRUE, m) : m \in {<<"hello">>, <<" ", "hello">>, <<>>, <<" ">>} }
      \cup { Frame("object", "chat", FALSE, <<>>),
             Frame("object", "ping", FALSE, <<>>),
             Frame("object", "other", FALSE, <<>>),
             Frame("array", "none", FALSE, <<>>),
             Frame("invalid", "none", FALSE, <<>>) }

SocketEvent(type, sources, content) == [type |-> type, sources |-> sources, content |-> content]

ErrorEvent == SocketEvent("error", 0, <<>>)

\* not message.strip()
IsBlankMessage(m) == \A i \in 1..Len(m) : IsSpace(m[i])

\* what retrieval and the model do while one chat frame is handled
SocketEnvs == [retrieval : BOOLEAN, sources : 0..MaxSources, chunks : ChunkStreams]

SocketContents(chunks) ==
    [i \in 1..Len(chunks) |-> SocketEvent("content", 0, chunks[i].content)]

\* a handler without the check for an empty message
handle_websocket_chat_no_check(frame, env) ==
    IF ~frame.text
    THEN [out |-> <<ErrorEvent>>, calls |-> <<>>]
    ELSE IF ~env.retrieval
    THEN [out |-> <<ErrorEvent>>, calls |-> <<"retrieval">>]
    ELSE [out |-> <<SocketEvent("sources", env.sources, <<>>)>>
                    \o SocketContents(env.chunks)
                    \o <<SocketEvent("complete", 0, <<>>)>>,
          calls |-> <<"retrieval", "model">>]

\* handle_websocket_chat: the events sent for one chat frame and the calls
\* made; whatever raises inside is answered with one error event
handle_websocket_chat(frame, env) ==
    IF ~frame.text
    THEN [out |-> <<ErrorEvent>>, calls |-> <<>>]
    ELSE IF IsBlankMessage(frame.message)
    THEN [out |-> <<ErrorEvent>>, calls |-> <<>>]
    ELSE IF ~env.retrieval
    THEN [out |-> <<ErrorEvent>>, calls |-> <<"retrieval">>]
    ELSE [out |-> <<SocketEvent("sources", env.sources, <<>>)>>
                    \o SocketContents(env.chunks)
                    \o <<SocketEvent("complete", 0, <<>>)>>,
          calls |-> <<"retrieval", "model">>]

NoSocket ==
    [pc |-> "none", first |-> "none", frame |-> NoFrame, out |-> <<>>, calls |-> <<>>]

\* websocket_chat up to the first receive: accept, then the connected event
websocket_accept ==
    /\ websocket.pc \in {"none", "closed", "returned"}
    /\ websocket' = [NoSocket EXCEPT !.pc = "reading", !.first = "connected",
                                     !.out = <<SocketEvent("connected", 0, <<>>)>>]
    /\ UNCHANGED sse

\* websocket_chat, one turn of the loop: a frame that receive_json cannot
\* hand over as an object raises, is answered by the outer handler, and the
\* function returns
websocket_receive(frame, env) ==
    /\ websocket.pc = "reading"
    /\ websocket' =
         IF frame.json # "object"
         THEN [websocket EXCEPT !.pc = "returned", !.frame = frame,
                                !.out = <<ErrorEvent>>, !.calls = <<>>]
         ELSE IF frame.type = "chat"
         THEN LET r == handle_websocket_chat(frame, env) IN
              [websocket EXCEPT !.frame = frame, !.out = r.out, !.calls = r.calls]
         ELSE IF frame.type = "ping"
         THEN [websocket EXCEPT !.frame = frame, !.calls = <<>>,
                                !.out = <<SocketEvent("pong", 0, <<>>)>>]
         ELSE [websocket EXCEPT !.frame = frame, !.out = <<ErrorEvent>>, !.calls = <<>>]
    /\ UNCHANGED sse

\* the client closes: receive_json raises WebSocketDisconnect
websocket_disconnect ==
    /\ websocket.pc = "reading"
    /\ websocket' = [websocket EXCEPT !.pc = "closed"]
    /\ UNCHANGED sse

----------------------------------------------------------------------------
\* Production profile (main_production.py): the middleware stack and a
\* request's way through it.

ProdLimit == 2
MaxHttpRequests == 3

AllowPaths == {"/", "/health", "/metrics", "/docs", "/openapi.json", "/redoc"}

ProdPaths == {"/", "/api/v1/chat"}

\* Authorization header: none, a token that does not decode, a token without
\* tenant_id, a good token
ProdCredentials == {"none", "bad", "no_tenant", "ok"}

\* Starlette's add_middleware puts the new class at the head of the list, and
\* the head of the list is the outermost layer
add_middleware(layers, cls) == <<cls>> \o layers

\* the stack with the layers added the other way round
MiddlewareStack_first_added_outermost ==
    <<"slowapi", "cors", "gzip", "tracing", "pii", "jwt">>

\* the add_middleware calls of main_production.py, in file order
MiddlewareStack ==
    add_middleware(add_middleware(add_middleware(add_middleware(add_middleware(
        add_middleware(<<>>, "slowapi"), "cors"), "gzip"), "tracing"), "pii"), "jwt")

ProdResult(status, visited, counted, request_id, hits) ==
    [status |-> status, visited |-> visited, counted |-> counted,
     request_id |-> request_id, hits |-> hits]

\* JWTAuthMiddleware.dispatch: 0 when the request is passed on
jwt_rejects(path, cred) ==
    IF path \in AllowPaths THEN 0
    ELSE IF cred \in {"none", "bad"} THEN 401
    ELSE IF cred = "no_tenant" THEN 403
    ELSE 0

\* the request enters layer i of the stack; past the last layer is the route
RECURSIVE call_next(_, _, _, _, _)
call_next(i, ip, path, cred, hits) ==
    IF i > Len(MiddlewareStack) THEN ProdResult(200, <<>>, FALSE, FALSE, hits)
    ELSE LET cls == MiddlewareStack[i] IN
    IF cls = "jwt" /\ jwt_rejects(path, cred) # 0
    THEN ProdResult(jwt_rejects(path, cred), <<cls>>, FALSE, FALSE, hits)
    ELSE IF cls = "slowapi" /\ hits[ip] >= ProdLimit
    THEN ProdResult(429, <<cls>>, FALSE, FALSE, hits)
    ELSE LET counted == IF cls = "slowapi" THEN [hits EXCEPT ![ip] = @ + 1] ELSE hits
             inner == call_next(i + 1, ip, path, cred, counted)
         IN IF cls = "tracing"
            THEN ProdResult(inner.status, <<cls>> \o inner.visited, TRUE, TRUE, inner.hits)
            ELSE ProdResult(inner.status, <<cls>> \o inner.visited, inner.counted,
                            inner.request_id, inner.hits)

\* one request to the production application
prod_request(ip, path, cred) ==
    LET r == call_next(1, ip, path, cred, limiter_hits) IN
    /\ http_requests + (IF r.counted THEN 1 ELSE 0) <= MaxHttpRequests
    /\ limiter_hits' = r.hits
    /\ http_requests' = http_requests + (IF r.counted THEN 1 ELSE 0)
    /\ prodResp' = [ip |-> ip, path |-> path, cred |-> cred, status |-> r.status,
                    visited |-> r.visited, counted |-> r.counted,
                    request_id |-> r.request_id]

\* the limiter's minute runs out for ip
limiter_window_expires(ip) ==
    /\ limiter_hits[ip] > 0
    /\ limiter_hits' = [limiter_hits EXCEPT ![ip] = 0]
    /\ UNCHANGED <<http_requests, prodResp>>

----------------------------------------------------------------------------
\* Development profile (main.py): the rate limiter, what lies inside it, and
\* the monitoring counters (api/routes/monitoring.py)

\* the add_middleware calls of main.py, in file order
MainStack ==
    add_middleware(add_middleware(add_middleware(add_middleware(
        add_middleware(<<>>, "cors"), "gzip"), "error_handling"), "rate_limiting"), "auth")

PositionOf(cls, layers) == CHOOSE i \in 1..Len(layers) : layers[i] = cls

\* cls lies inside outer: a request passes outer before it reaches cls
Inside(cls, outer) == PositionOf(cls, MainStack) > PositionOf(outer, MainStack)

\* ErrorHandlingMiddleware.dispatch: an exception of call_next becomes a 500
\* response
ErrorHandling_dispatch(handlerRaises) ==
    [raised |-> FALSE, status |-> IF handlerRaises THEN 500 ELSE 200]

\* what the rate limiter's call_next gives back
rate_call_next(handlerRaises) ==
    IF Inside("error_handling", "rate_limiting")
    THEN ErrorHandling_dispatch(handlerRaises)
    ELSE [raised |-> handlerRaises, status |-> IF handlerRaises THEN 500 ELSE 200]

\* record_request(route, response_time_ms, error)
record_request(store, error) ==
    [requests_total |-> store.requests_total + 1,
     errors_total |-> store.errors_total + (IF error THEN 1 ELSE 0)]

MonResponse(path, reached, handlerRaises, status, recorded, error) ==
    [path |-> path, reached |-> reached, handler_raised |-> handlerRaises,
     status |-> status, recorded |-> recorded, recorded_error |-> error]

\* RateLimitingMiddleware.dispatch in main.py's stack, with its record_request
\* calls; handlerRaises: the route handler raises an exception
monitored_dispatch(ip, path, handlerRaises) ==
    LET down == rate_call_next(handlerRaises)
        blocked == Len(Filter(requests[ip], clock)) >= RequestsPerMinute
    IN
    /\ dispatch(ip, path, ~down.raised)
    /\ IF path \in ExcludedPaths
       THEN /\ monResp' = MonResponse(path, FALSE, handlerRaises, down.status, 0, FALSE)
            /\ UNCHANGED metrics_store
       ELSE IF blocked
       THEN /\ metrics_store' = record_request(metrics_store, TRUE)
            /\ monResp' = MonResponse(path, TRUE, FALSE, 429, 1, TRUE)
       ELSE /\ metrics_store' = record_request(metrics_store, down.raised)
            /\ monResp' = MonResponse(path, TRUE, handlerRaises, down.status, 1,
                                      down.raised)

----------------------------------------------------------------------------
\* Application lifecycle of main.py: building the middleware stack, the
\* lifespan, the health route (api/routes/health.py)

MaxAnswered == 4

AppPaths == {"/api/v1/health", "/api/v1/chat", "/docs"}

\* lifespan setting of the server: with "auto" a server whose startup failed
\* serves all the same, with "on" it exits
LifespanModes == {"auto", "on"}

\* objects that have add_event_handler: the application and its router; a
\* middleware object has none
HasAddEventHandler(obj) == obj \in {"application", "router"}

\* what a layer's constructor receives as app: the layer inside it, or for the
\* innermost layer the exception middleware that wraps the router
InnerApp(i) ==
    IF i = Len(MainStack) THEN "exception_middleware" ELSE MainStack[i + 1]

\* RateLimitingMiddleware.__init__ calls app.add_event_handler on the object
\* it wraps
ConstructorRaises(i) ==
    MainStack[i] = "rate_limiting" /\ ~HasAddEventHandler(InnerApp(i))

build_middleware_stack ==
    IF \E i \in 1..Len(MainStack) : ConstructorRaises(i) THEN "failed" ELSE "built"

\* the startup and shutdown handlers RateLimitingMiddleware managed to
\* register with the application
RegisteredHandlers ==
    IF \E i \in 1..Len(MainStack) :
          MainStack[i] = "rate_limiting" /\ InnerApp(i) = "application"
    THEN {"start_cleanup_task", "stop_cleanup_task"} ELSE {}

\* start_cleanup_task
start_cleanup_task(task) == IF task = "running" THEN task ELSE "running"

\* stop_cleanup_task
stop_cleanup_task(task) == "none"

AppResponse(path, status, body_status, timestamp) ==
    [path |-> path, status |-> status, body_status |-> body_status,
     timestamp |-> timestamp]

\* the backends come up or go down
backend_changes(g, t) ==
    /\ rag_health # [global_rag |-> g, tenant_rag |-> t]
    /\ rag_health' = [global_rag |-> g, tenant_rag |-> t]
    /\ UNCHANGED <<app_phase, startup_complete, middleware_stack, cleanup_task,
                   queue_workers, answered, appResp>>

\* the server sends the lifespan startup message: the application builds its
\* middleware stack and then runs lifespan up to the yield
startup(mode) ==
    /\ app_phase = "created"
    /\ middleware_stack' = build_middleware_stack
    /\ IF build_middleware_stack = "failed"
       THEN /\ app_phase' = IF mode = "auto" THEN "serving" ELSE "stopped"
            /\ UNCHANGED <<startup_complete, cleanup_task, queue_workers>>
       ELSE /\ app_phase' = "serving"
            /\ startup_complete' = TRUE
            /\ queue_workers' = TRUE
            /\ cleanup_task' = IF "start_cleanup_task" \in RegisteredHandlers
                               THEN start_cleanup_task(cleanup_task)
                               ELSE cleanup_task
    /\ UNCHANGED <<rag_health, answered, appResp>>

\* health_check of api/routes/health.py
health_check == AppResponse("/api/v1/health", 200, "healthy", TRUE)

\* one request to the serving application
http_request(path) ==
    /\ app_phase = "serving"
    /\ answered < MaxAnswered
    /\ answered' = answered + 1
    /\ IF middleware_stack # "built" /\ build_middleware_stack = "failed"
       THEN /\ appResp' = AppResponse(path, 500, NoOne, FALSE)
            /\ UNCHANGED middleware_stack
       ELSE /\ middleware_stack' = "built"
            /\ appResp' = IF path = "/api/v1/health" THEN health_check
                          ELSE AppResponse(path, 200, NoOne, FALSE)
    /\ UNCHANGED <<app_phase, startup_complete, cleanup_task, rag_health,
                   queue_workers>>

\* the server shuts the application down
shutdown ==
    /\ app_phase = "serving"
    /\ app_phase' = "stopped"
    /\ cleanup_task' = IF "stop_cleanup_task" \in RegisteredHandlers
                       THEN stop_cleanup_task(cleanup_task)
                       ELSE cleanup_task
    /\ UNCHANGED <<startup_complete, middleware_stack, rag_health,
                   queue_workers, answered, appResp>>

----------------------------------------------------------------------------
\* RateLimitingMiddleware.dispatch as the event loop runs it: a request runs
\* from its start to "await call_next", is suspended there while other
\* requests and the cleanup task run, and is resumed when call_next returns

MaxInFlight == 2

MaxArrivals == 3

InFlightTotal == SumCount(in_flight, IPs)

\* variant of dispatch_begin that forwards without recording the timestamp
dispatch_begin_no_append(ip, path) ==
    /\ path \notin ExcludedPaths
    /\ TotalSeen < MaxArrivals
    /\ InFlightTotal < MaxInFlight
    /\ seen' = [seen EXCEPT ![ip] = Append(@, [t |-> clock, fwd |-> TRUE])]
    /\ in_flight' = [in_flight EXCEPT ![ip] = @ + 1]
    /\ UNCHANGED <<clock, requests, rlResp>>

\* dispatch from its first line to the first suspension point: the 429
\* answer, or the append followed by "await call_next"
dispatch_begin(ip, path) ==
    IF path \in ExcludedPaths
    THEN /\ rlResp' = RateResponse(ip, path, clock, 200, TRUE, NoHeader, NoHeader)
         /\ UNCHANGED <<clock, requests, seen, in_flight>>
    ELSE LET cleaned == Filter(requests[ip], clock) IN
         /\ TotalSeen < MaxArrivals
         /\ IF Len(cleaned) >= RequestsPerMinute
            THEN /\ requests' = [requests EXCEPT ![ip] = cleaned]
                 /\ seen' = [seen EXCEPT ![ip] = Append(@, [t |-> clock, fwd |-> FALSE])]
                 /\ rlResp' = RateResponse(ip, path, clock, 429, FALSE, 0,
                                           retry_after(cleaned, clock))
                 /\ UNCHANGED in_flight
            ELSE /\ InFlightTotal < MaxInFlight
                 /\ requests' = [requests EXCEPT ![ip] = Append(cleaned, clock)]
                 /\ seen' = [seen EXCEPT ![ip] = Append(@, [t |-> clock, fwd |-> TRUE])]
                 /\ in_flight' = [in_flight EXCEPT ![ip] = @ + 1]
                 /\ UNCHANGED rlResp
         /\ UNCHANGED clock

\* dispatch from the return of call_next to its end: the rate limit headers
\* are computed from the list as it is now
dispatch_resume(ip, downOk) ==
    /\ in_flight[ip] > 0
    /\ in_flight' = [in_flight EXCEPT ![ip] = @ - 1]
    /\ rlResp' = IF downOk
                 THEN RateResponse(ip, "/api/v1/chat", clock, 200, TRUE,
                                   Max2(0, RequestsPerMinute - Len(requests[ip])),
                                   NoHeader)
                 ELSE RateResponse(ip, "/api/v1/chat", clock, 500, TRUE, NoHeader,
                                   NoHeader)
    /\ UNCHANGED <<clock, requests, seen>>

----------------------------------------------------------------------------
\* Concurrent add_message calls on one session (conversation_manager.py), as
\* the event loop runs them: a call keeps the loop until it awaits something
\* that really suspends

MaxCalls == 2

Calls == 1..MaxCalls

NoCall == 0

NoObject == 0

\* the object the cache holds when the session is cached before the calls
CachedObject == MaxCalls + 1

Awaited == {"_load_session_from_db", "_store_messages", "_update_session_in_db"}

\* variant of Suspends for a database client whose calls are awaited
Suspends_async_client(callee) == callee \in Awaited

\* whether awaiting callee gives up the event loop: the three coroutines call
\* the synchronous Supabase client and contain no await of their own
Suspends(callee) == FALSE

MayRun(c) == event_loop \in {NoCall, c}

AfterAwait(c, callee) == IF Suspends(callee) THEN NoCall ELSE c

\* an earlier turn on the session, before the calls: the row counts its two
\* messages, and the session object is still cached or has been swept out
earlier_turn(cached) ==
    /\ \A c \in Calls : turn_pc[c] = "pending"
    /\ base_count = 0
    /\ base_count' = 2
    /\ stored_count' = 2
    /\ stored_messages' = 2
    /\ cache_ref' = IF cached THEN CachedObject ELSE NoObject
    /\ session_objects' = [session_objects EXCEPT ![CachedObject] = IF cached THEN 2 ELSE 0]
    /\ UNCHANGED <<turn_pc, turn_session, event_loop, turn_result, write_log>>

\* add_message up to the return of get_session
add_message_begin(c) ==
    /\ turn_pc[c] = "pending"
    /\ MayRun(c)
    /\ turn_pc' = [turn_pc EXCEPT ![c] = "loaded"]
    /\ IF cache_ref # NoObject
       THEN /\ turn_session' = [turn_session EXCEPT ![c] = cache_ref]
            /\ event_loop' = c
            /\ UNCHANGED session_objects
       ELSE /\ turn_session' = [turn_session EXCEPT ![c] = c]
            /\ session_objects' = [session_objects EXCEPT ![c] = stored_count]
            /\ event_loop' = AfterAwait(c, "_load_session_from_db")
    /\ UNCHANGED <<cache_ref, stored_count, stored_messages, turn_result,
                   write_log, base_count>>

\* await self._store_messages(...); msgOk: the insert succeeds
add_message_store(c, msgOk) ==
    /\ turn_pc[c] = "loaded"
    /\ MayRun(c)
    /\ turn_pc' = [turn_pc EXCEPT ![c] = "stored"]
    /\ stored_messages' = stored_messages + (IF msgOk THEN 2 ELSE 0)
    /\ event_loop' = AfterAwait(c, "_store_messages")
    /\ UNCHANGED <<turn_session, session_objects, cache_ref, stored_count,
                   turn_result, write_log, base_count>>

\* session.message_count += 2 and await self._update_session_in_db(session);
\* dbOk: the update succeeds
add_message_write_back(c, dbOk) ==
    LET obj == turn_session[c]
        count == session_objects[obj] + 2
    IN
    /\ turn_pc[c] = "stored"
    /\ MayRun(c)
    /\ turn_pc' = [turn_pc EXCEPT ![c] = "written"]
    /\ session_objects' = [session_objects EXCEPT ![obj] = count]
    /\ stored_count' = IF dbOk THEN count ELSE stored_count
    /\ write_log' = Append(write_log, [call |-> c, ok |-> dbOk, count |-> count])
    /\ event_loop' = AfterAwait(c, "_update_session_in_db")
    /\ UNCHANGED <<turn_session, cache_ref, stored_messages, turn_result,
                   base_count>>

\* self.active_sessions[session_id] = session; return True
add_message_finish(c) ==
    /\ turn_pc[c] = "written"
    /\ MayRun(c)
    /\ turn_pc' = [turn_pc EXCEPT ![c] = "done"]
    /\ cache_ref' = turn_session[c]
    /\ turn_result' = [turn_result EXCEPT ![c] = "true"]
    /\ event_loop' = NoCall
    /\ UNCHANGED <<turn_session, session_objects, stored_count, stored_messages,
                   write_log, base_count>>

----------------------------------------------------------------------------
\* The current-trace slot (utils/tracing.py), the routes that set it
\* (api/routes/analysis.py) and the model router that reads it

MaxTraced == 3

TraceRequests == 1..MaxTraced

NoTrace == 0

\* set_current_trace
set_current_trace(tracer) == tracer

\* get_current_trace
get_current_trace == current_trace

\* ModelRouter.generate_response on behalf of request r: on a cache miss it
\* takes the tracer from the slot and records generation time, tokens and cost
\* into it
generate_response_traced(r, slot, cacheHit) ==
    IF cacheHit \/ slot = NoTrace THEN recordings
    ELSE recordings \cup {[tracer |-> slot, caused_by |-> r]}

\* perform_swot_analysis up to its return: no await in it suspends; the
\* tracer's finish is left to a background task
perform_swot_analysis(r, cacheHit) ==
    /\ trace_pc[r] = "pending"
    /\ current_trace' = set_current_trace(r)
    /\ recordings' = generate_response_traced(r, set_current_trace(r), cacheHit)
    /\ trace_pc' = [trace_pc EXCEPT ![r] = "responding"]
    /\ UNCHANGED trace_log

\* send_chat_message: sets no tracer and calls the model router
send_chat_message_untraced(r, cacheHit) ==
    /\ trace_pc[r] = "pending"
    /\ recordings' = generate_response_traced(r, get_current_trace, cacheHit)
    /\ trace_pc' = [trace_pc EXCEPT ![r] = "finished"]
    /\ UNCHANGED <<current_trace, trace_log>>

\* the requests whose generation figures tracer holds
RecordedInto(tracer) == {rec.caused_by : rec \in {x \in recordings : x.tracer = tracer}}

\* the background task tracer.finish of request r, after the response is sent
finish(r) ==
    /\ trace_pc[r] = "responding"
    /\ trace_pc' = [trace_pc EXCEPT ![r] = "finished"]
    /\ trace_log' = [trace_log EXCEPT ![r] = RecordedInto(r)]
    /\ UNCHANGED <<current_trace, recordings>>

----------------------------------------------------------------------------
\* process_export_queue as a loop that runs for ever (queue_service.py):
\* which messages it gets to, whatever the others do

MaxMessages == 3

MessageIds == 1..MaxMessages

\* a job whose rendering succeeds, a job whose rendering raises, and a message
\* whose "message" field is no JSON object
MessageKinds == {"good", "failing", "malformed"}

\* a message is sent to the queue while the worker sleeps between polls
send_to_queue(kind) ==
    /\ polled = <<>>
    /\ \E id \in MessageIds :
          /\ pgmq[id].place = "absent"
          /\ \A j \in MessageIds : j < id => pgmq[j].place # "absent"
          /\ pgmq' = [pgmq EXCEPT ![id] = [kind |-> kind, place |-> "visible"]]
          /\ job_state' = [job_state EXCEPT ![id] = "queued"]
    /\ UNCHANGED <<polled, hidden_groups>>

RECURSIVE VisibleMessages(_, _)
VisibleMessages(id, n) ==
    IF id > MaxMessages \/ n = 0 THEN <<>>
    ELSE IF pgmq[id].place = "visible"
    THEN <<id>> \o VisibleMessages(id + 1, n - 1)
    ELSE VisibleMessages(id + 1, n)

\* read_from_queue(EXPORT, qty=5) at the top of the loop: the oldest visible
\* messages, all hidden until the same visibility timeout
read_from_queue ==
    /\ polled = <<>>
    /\ LET ids == VisibleMessages(1, ReadQty) IN
       /\ ids # <<>>
       /\ polled' = ids
       /\ pgmq' = [id \in MessageIds |->
                     IF InSeq(id, ids) THEN [pgmq[id] EXCEPT !.place = "hidden"]
                     ELSE pgmq[id]]
       /\ hidden_groups' = Append(hidden_groups, {ids[i] : i \in 1..Len(ids)})
    /\ UNCHANGED job_state

\* one turn of "for msg in messages": a good job is rendered, marked completed
\* and deleted; a failing one is marked failed and left to reappear; at a
\* malformed one job_data.get raises outside the inner try, the outer except
\* logs it and the loop starts over, leaving the rest of the batch unhandled
process_message ==
    /\ polled # <<>>
    /\ LET id == Head(polled) IN
       IF pgmq[id].kind = "good"
       THEN /\ polled' = Tail(polled)
            /\ job_state' = [job_state EXCEPT ![id] = "completed"]
            /\ pgmq' = [pgmq EXCEPT ![id].place = "deleted"]
            /\ hidden_groups' = [g \in 1..Len(hidden_groups) |-> hidden_groups[g] \ {id}]
       ELSE IF pgmq[id].kind = "failing"
       THEN /\ polled' = Tail(polled)
            /\ job_state' = [job_state EXCEPT ![id] = "failed"]
            /\ UNCHANGED <<pgmq, hidden_groups>>
       ELSE /\ polled' = <<>>
            /\ UNCHANGED <<pgmq, job_state, hidden_groups>>

\* the visibility timeout of the oldest read runs out while the worker sleeps:
\* its messages that are still in the queue are visible again
visibility_timeout_expires ==
    /\ polled = <<>>
    /\ hidden_groups # <<>>
    /\ pgmq' = [id \in MessageIds |->
                  IF id \in Head(hidden_groups) /\ pgmq[id].place = "hidden"
                  THEN [pgmq[id] EXCEPT !.place = "visible"]
                  ELSE pgmq[id]]
    /\ hidden_groups' = Tail(hidden_groups)
    /\ UNCHANGED <<polled, job_state>>

----------------------------------------------------------------------------
Init ==
    /\ now = 0
    /\ active_sessions = Empty
    /\ chat_sessions = Empty
    /\ chat_messages = [s \in SessionIds |-> 0]
    /\ background_tasks = {}
    /\ resp = Response("init", NoOne, NoOne, 200)
    /\ redis = Empty
    /\ genResp = GenResponse("init", NoOne, "general", FALSE, NoOne, 200, FALSE,
                            FALSE, FALSE, FALSE)
    /\ cache_service = "unloaded"
    /\ clock = 0
    /\ requests = [ip \in IPs |-> <<>>]
    /\ seen = [ip \in IPs |-> <<>>]
    /\ rlResp = RateResponse(NoOne, NoOne, 0, 200, TRUE, NoHeader, NoHeader)
    /\ queue = Empty
    /\ next_job = 0
    /\ export_status = Empty
    /\ batch = <<>>
    /\ wcur = Idle
    /\ wevent = [kind |-> "none", job_id |-> NoJob, msg_id |-> 0]
    /\ redeliveries = 0
    /\ completions = [j \in 1..MaxJobs |-> 0]
    /\ file_cache = Empty
    /\ exportResp = ExportResponse("init", "none", 200, "none", NoJob, FALSE, {})
    /\ query_text = <<>>
    /\ query_variant = <<>>
    /\ normalized = NotNormalized
    /\ retrieved = RetrieveResult("none", NoProject, 0, "none", <<>>, <<>>)
    /\ fused = [first |-> <<>>, second |-> <<>>, k |-> 0, called |-> FALSE, out |-> <<>>]
    /\ session_metadata = Empty
    /\ sticky_history = [c \in ConversationIds |-> NeverSet]
    /\ stickyResp = StickyResponse("init", NoOne, FALSE, FALSE)
    /\ sse = NoStream
    /\ websocket = NoSocket
    /\ limiter_hits = [ip \in IPs |-> 0]
    /\ http_requests = 0
    /\ metrics_store = [requests_total |-> 0, errors_total |-> 0]
    /\ monResp = MonResponse(NoOne, FALSE, FALSE, 0, 0, FALSE)
    /\ app_phase = "created"
    /\ startup_complete = FALSE
    /\ middleware_stack = "none"
    /\ cleanup_task = "none"
    /\ rag_health = [global_rag |-> TRUE, tenant_rag |-> TRUE]
    /\ queue_workers = FALSE
    /\ answered = 0
    /\ appResp = AppResponse(NoOne, 0, NoOne, FALSE)
    /\ in_flight = [ip \in IPs |-> 0]
    /\ turn_pc = [c \in Calls |-> "pending"]
    /\ turn_session = [c \in Calls |-> NoObject]
    /\ event_loop = NoCall
    /\ base_count = 0
    /\ stored_count = 0
    /\ stored_messages = 0
    /\ cache_ref = NoObject
    /\ session_objects = [o \in 1..CachedObject |-> 0]
    /\ turn_result = [c \in Calls |-> NoOne]
    /\ write_log = <<>>
    /\ current_trace = NoTrace
    /\ trace_pc = [r \in TraceRequests |-> "pending"]
    /\ recordings = {}
    /\ trace_log = [r \in TraceRequests |-> {}]
    /\ pgmq = [id \in MessageIds |-> [kind |-> "good", place |-> "absent"]]
    /\ polled = <<>>
    /\ hidden_groups = <<>>
    /\ job_state = [id \in MessageIds |-> NoOne]
    /\ prodResp = [ip |-> NoOne, path |-> NoOne, cred |-> "none", status |-> 0,
                   visited |-> <<>>, counted |-> FALSE, request_id |-> FALSE]

StatusInputs == {"none", "paused", "active"}

DeleteOutcomes == {"ok", "msgs_fail", "sess_fail"}

notSess == <<cacheVars, rateVars, exportVars, queryVars, retrieveVars, stickyVars, streamVars, prodVars, metricsVars, appVars, concVars, turnsVars, traceVars, workerVars>>

notCache == <<sessVars, rateVars, exportVars, queryVars, retrieveVars, stickyVars, streamVars, prodVars, metricsVars, appVars, concVars, turnsVars, traceVars, workerVars>>

notRate == <<sessVars, cacheVars, exportVars, queryVars, retrieveVars, stickyVars, streamVars, prodVars, metricsVars, appVars, concVars, turnsVars, traceVars, workerVars>>

notExport == <<sessVars, cacheVars, rateVars, queryVars, retrieveVars, stickyVars, streamVars, prodVars, metricsVars, appVars, concVars, turnsVars, traceVars, workerVars>>

notQuery == <<sessVars, cacheVars, rateVars, exportVars, retrieveVars, stickyVars, streamVars, prodVars, metricsVars, appVars, concVars, turnsVars, traceVars, workerVars>>

notRetrieve == <<sessVars, cacheVars, rateVars, exportVars, queryVars, stickyVars, streamVars, prodVars, metricsVars, appVars, concVars, turnsVars, traceVars, workerVars>>

notSticky == <<sessVars, cacheVars, rateVars, exportVars, queryVars, retrieveVars, streamVars, prodVars, metricsVars, appVars, concVars, turnsVars, traceVars, workerVars>>

notStream == <<sessVars, cacheVars, rateVars, exportVars, queryVars, retrieveVars, stickyVars, prodVars, metricsVars, appVars, concVars, turnsVars, traceVars, workerVars>>

notProd == <<sessVars, cacheVars, rateVars, exportVars, queryVars, retrieveVars, stickyVars, streamVars, metricsVars, appVars, concVars, turnsVars, traceVars, workerVars>>

notMetrics == <<sessVars, cacheVars, rateVars, exportVars, queryVars, retrieveVars, stickyVars, streamVars, prodVars, appVars, concVars, turnsVars, traceVars, workerVars>>

notApp == <<sessVars, cacheVars, rateVars, exportVars, queryVars, retrieveVars, stickyVars, streamVars, prodVars, metricsVars, concVars, turnsVars, traceVars, workerVars>>

notConc == <<sessVars, cacheVars, rateVars, exportVars, queryVars, retrieveVars, stickyVars, streamVars, prodVars, metricsVars, appVars, turnsVars, traceVars, workerVars>>

notTurns == <<sessVars, cacheVars, rateVars, exportVars, queryVars, retrieveVars, stickyVars, streamVars, prodVars, metricsVars, appVars, concVars, traceVars, workerVars>>

notTrace == <<sessVars, cacheVars, rateVars, exportVars, queryVars, retrieveVars, stickyVars, streamVars, prodVars, metricsVars, appVars, concVars, turnsVars, workerVars>>

notWorker == <<sessVars, cacheVars, rateVars, exportVars, queryVars, retrieveVars, stickyVars, streamVars, prodVars, metricsVars, appVars, concVars, turnsVars, traceVars>>

\* ---- conversation manager and session routes
CreateSessionStep ==
    /\ \E u \in Users, sid \in SessionIds, dbOk \in BOOLEAN :
          create_session(u, sid, dbOk)
    /\ UNCHANGED notSess

ChatMessageStep ==
    /\ \E u \in Users, sid \in SessionIds, dbOk, genOk \in BOOLEAN :
          chat_message(u, sid, dbOk, genOk)
    /\ UNCHANGED notSess

AddMessageStep ==
    /\ \E t \in background_tasks, msgOk, dbOk \in BOOLEAN :
          add_message(t, msgOk, dbOk)
    /\ UNCHANGED notSess

GetSessionStep ==
    /\ \E u \in Users, sid \in SessionIds : get_session_route(u, sid)
    /\ UNCHANGED notSess

UpdateSessionStep ==
    /\ \E u \in Users, sid \in SessionIds, st \in StatusInputs, dbOk \in BOOLEAN :
          update_session(u, sid, st, dbOk)
    /\ UNCHANGED notSess

DeleteSessionStep ==
    /\ \E u \in Users, sid \in SessionIds, o \in DeleteOutcomes :
          delete_session(u, sid, o)
    /\ UNCHANGED notSess

CleanupStep ==
    /\ \E dbOk \in BOOLEAN : cleanup_expired_sessions(dbOk)
    /\ UNCHANGED notSess

TickStep ==
    /\ Tick
    /\ UNCHANGED notSess

Next ==
    \/ CreateSessionStep
    \/ ChatMessageStep
    \/ AddMessageStep
    \/ GetSessionStep
    \/ UpdateSessionStep
    \/ DeleteSessionStep
    \/ CleanupStep
    \/ TickStep

Spec == Init /\ [][Next]_vars

\* ---- response cache
ChatGenerateStep ==
    /\ \E u \in Users, m \in Messages, p \in Personas, f \in Frameworks,
          env \in EnvOutcomes :
          chat_generate(u, m, p, f, env)
    /\ UNCHANGED notCache

SwotAnalysisStep ==
    /\ \E u \in Users, m \in Messages, env \in EnvOutcomes :
          swot_analysis(u, m, env)
    /\ UNCHANGED notCache

ExpireStep ==
    /\ \E k \in DOMAIN redis : expire_key(k)
    /\ UNCHANGED notCache

LoadCacheStep ==
    /\ \E pingOk \in BOOLEAN : load_redis_cache(pingOk)
    /\ UNCHANGED notCache

UnservedStep ==
    /\ \E route \in {"chat", "swot"}, u \in Users : request_unserved(route, u)
    /\ UNCHANGED notCache

NextCache ==
    \/ LoadCacheStep
    \/ ChatGenerateStep
    \/ SwotAnalysisStep
    \/ ExpireStep
    \/ UnservedStep

SpecCache == Init /\ [][NextCache]_vars

\* ---- query normalisation
SubmitQueryStep ==
    /\ \E q \in BaseQueries : submit_query(q)
    /\ UNCHANGED notQuery

VaryCaseStep ==
    /\ \E i \in 1..MaxQueryLen : vary_case(i)
    /\ UNCHANGED notQuery

VaryWhitespaceStep ==
    /\ \E i \in 1..(MaxQueryLen + 1), insert \in BOOLEAN : vary_whitespace(i, insert)
    /\ UNCHANGED notQuery

VaryPunctuationStep ==
    /\ \E i \in 1..(MaxQueryLen + 1), punct \in Punctuation, insert \in BOOLEAN :
          vary_punctuation(i, punct, insert)
    /\ UNCHANGED notQuery

VaryPhraseStep ==
    /\ \E i \in 1..MaxQueryLen, from, to \in 1..Len(PhraseVariations) :
          vary_phrase(i, from, to)
    /\ UNCHANGED notQuery

NormalizeStep ==
    /\ normalize_both
    /\ UNCHANGED notQuery

NextNormalize ==
    \/ SubmitQueryStep
    \/ VaryCaseStep
    \/ VaryWhitespaceStep
    \/ VaryPunctuationStep
    \/ VaryPhraseStep
    \/ NormalizeStep

SpecNormalize == Init /\ [][NextNormalize]_vars

\* ---- hybrid retrieval
RetrieveStep ==
    /\ \E project_id \in {NoProject, "p1"}, k \in 0..MaxK,
          mode \in RagModes \cup {"none"}, env \in RetrieveEnvs :
          retrieve(project_id, k, mode, env)
    /\ UNCHANGED notRetrieve

NextRetrieve == RetrieveStep

SpecRetrieve == Init /\ [][NextRetrieve]_vars

\* ---- reciprocal rank fusion
\* the function is pure: one call from the initial state shows all it does
FuseStep ==
    /\ ~fused.called
    /\ \E first, second \in RankedLists(FusionChunks, MaxRanked), k \in 0..MaxK :
          fuse(first, second, k)
    /\ UNCHANGED notRetrieve

NextFusion == FuseStep

SpecFusion == Init /\ [][NextFusion]_vars

\* ---- sticky routing
CreateConversationStep ==
    /\ \E sid \in ConversationIds, dbOk \in BOOLEAN : create_conversation(sid, dbOk)
    /\ UNCHANGED notSticky

SetStickyStep ==
    /\ \E sid \in ConversationIds, turns \in 0..MaxStickyTurns, readOk, writeOk \in BOOLEAN :
          set_sticky_routing(sid, turns, readOk, writeOk)
    /\ UNCHANGED notSticky

ConsumeStickyStep ==
    /\ \E sid \in ConversationIds, readOk, writeOk \in BOOLEAN :
          consume_sticky_routing(sid, readOk, writeOk)
    /\ UNCHANGED notSticky

NextSticky ==
    \/ CreateConversationStep
    \/ SetStickyStep
    \/ ConsumeStickyStep

SpecSticky == Init /\ [][NextSticky]_vars

\* ---- POST /chat/stream
StreamRequestStep ==
    /\ \E setupOk \in BOOLEAN, sources \in 0..MaxSources : stream_chat_message(setupOk, sources)
    /\ UNCHANGED notStream

StreamContextStep ==
    /\ stream_context
    /\ UNCHANGED notStream

StreamChunkStep ==
    /\ \E chunk \in StreamChunks : stream_chunk(chunk)
    /\ UNCHANGED notStream

StreamCompleteStep ==
    /\ stream_complete
    /\ UNCHANGED notStream

StreamSaveStep ==
    /\ \E found, msgOk \in BOOLEAN : stream_save(found, msgOk)
    /\ UNCHANGED notStream

StreamDisconnectStep ==
    /\ stream_disconnect
    /\ UNCHANGED notStream

NextStream ==
    \/ StreamRequestStep
    \/ StreamContextStep
    \/ StreamChunkStep
    \/ StreamCompleteStep
    \/ StreamSaveStep
    \/ StreamDisconnectStep

SpecStream == Init /\ [][NextStream]_vars

\* ---- WS /chat/ws
SocketAcceptStep ==
    /\ websocket_accept
    /\ UNCHANGED notStream

SocketReceiveStep ==
    /\ \E frame \in Frames, env \in SocketEnvs : websocket_receive(frame, env)
    /\ UNCHANGED notStream

SocketDisconnectStep ==
    /\ websocket_disconnect
    /\ UNCHANGED notStream

NextSocket ==
    \/ SocketAcceptStep
    \/ SocketReceiveStep
    \/ SocketDisconnectStep

SpecSocket == Init /\ [][NextSocket]_vars

\* ---- production profile
ProdRequestStep ==
    /\ \E ip \in IPs, path \in ProdPaths, cred \in ProdCredentials : prod_request(ip, path, cred)
    /\ UNCHANGED notProd

LimiterWindowStep ==
    /\ \E ip \in IPs : limiter_window_expires(ip)
    /\ UNCHANGED notProd

NextProd ==
    \/ ProdRequestStep
    \/ LimiterWindowStep

SpecProd == Init /\ [][NextProd]_vars

\* ---- rate limiting middleware
DispatchStep ==
    /\ \E ip \in IPs, path \in Paths, downOk \in BOOLEAN :
          dispatch(ip, path, downOk)
    /\ UNCHANGED notRate

CleanupRequestsStep ==
    /\ cleanup_old_requests
    /\ UNCHANGED notRate

ClockStep ==
    /\ \E d \in ClockSteps : clock_tick(d)
    /\ UNCHANGED notRate

NextRate ==
    \/ DispatchStep
    \/ CleanupRequestsStep
    \/ ClockStep

SpecRate == Init /\ [][NextRate]_vars

\* ---- development profile: rate limiter with monitoring
notRateMetrics == <<sessVars, cacheVars, exportVars, queryVars, retrieveVars, stickyVars, streamVars, prodVars, appVars, concVars, turnsVars, traceVars, workerVars>>

MonitoredDispatchStep ==
    /\ \E ip \in IPs, path \in Paths, handlerRaises \in BOOLEAN :
          monitored_dispatch(ip, path, handlerRaises)
    /\ UNCHANGED notRateMetrics

NextMonitor ==
    \/ MonitoredDispatchStep
    \/ CleanupRequestsStep
    \/ ClockStep

SpecMonitor == Init /\ [][NextMonitor]_vars

\* ---- application lifecycle
BackendChangesStep ==
    /\ \E g \in BOOLEAN, t \in BOOLEAN : backend_changes(g, t)
    /\ UNCHANGED notApp

StartupStep ==
    /\ \E mode \in LifespanModes : startup(mode)
    /\ UNCHANGED notApp

HttpRequestStep ==
    /\ \E path \in AppPaths : http_request(path)
    /\ UNCHANGED notApp

ShutdownStep ==
    /\ shutdown
    /\ UNCHANGED notApp

NextApp ==
    \/ BackendChangesStep
    \/ StartupStep
    \/ HttpRequestStep
    \/ ShutdownStep

SpecApp == Init /\ [][NextApp]_vars

\* ---- rate limiter under concurrent requests
notRateConc == <<sessVars, cacheVars, exportVars, queryVars, retrieveVars, stickyVars, streamVars, prodVars, metricsVars, appVars, turnsVars, traceVars, workerVars>>

DispatchBeginStep ==
    /\ \E ip \in IPs, path \in Paths : dispatch_begin(ip, path)
    /\ UNCHANGED notRateConc

DispatchResumeStep ==
    /\ \E ip \in IPs, downOk \in BOOLEAN : dispatch_resume(ip, downOk)
    /\ UNCHANGED notRateConc

NextConcurrent ==
    \/ DispatchBeginStep
    \/ DispatchResumeStep
    \/ CleanupRequestsStep
    \/ ClockStep

SpecConcurrent == Init /\ [][NextConcurrent]_vars

\* ---- concurrent add_message calls
EarlierTurnStep ==
    /\ \E cached \in BOOLEAN : earlier_turn(cached)
    /\ UNCHANGED notTurns

AddMessageBeginStep ==
    /\ \E c \in Calls : add_message_begin(c)
    /\ UNCHANGED notTurns

AddMessageStoreStep ==
    /\ \E c \in Calls, msgOk \in BOOLEAN : add_message_store(c, msgOk)
    /\ UNCHANGED notTurns

AddMessageWriteBackStep ==
    /\ \E c \in Calls, dbOk \in BOOLEAN : add_message_write_back(c, dbOk)
    /\ UNCHANGED notTurns

AddMessageFinishStep ==
    /\ \E c \in Calls : add_message_finish(c)
    /\ UNCHANGED notTurns

NextTurns ==
    \/ EarlierTurnStep
    \/ AddMessageBeginStep
    \/ AddMessageStoreStep
    \/ AddMessageWriteBackStep
    \/ AddMessageFinishStep

SpecTurns == Init /\ [][NextTurns]_vars

\* ---- current-trace slot
SwotStep ==
    /\ \E r \in TraceRequests, cacheHit \in BOOLEAN : perform_swot_analysis(r, cacheHit)
    /\ UNCHANGED notTrace

UntracedChatStep ==
    /\ \E r \in TraceRequests, cacheHit \in BOOLEAN : send_chat_message_untraced(r, cacheHit)
    /\ UNCHANGED notTrace

FinishTraceStep ==
    /\ \E r \in TraceRequests : finish(r)
    /\ UNCHANGED notTrace

NextTrace ==
    \/ SwotStep
    \/ UntracedChatStep
    \/ FinishTraceStep

SpecTrace == Init /\ [][NextTrace]_vars

\* ---- export worker loop, progress
SendToQueueStep ==
    /\ \E kind \in MessageKinds : send_to_queue(kind)
    /\ UNCHANGED notWorker

ReadFromQueueStep ==
    /\ read_from_queue
    /\ UNCHANGED notWorker

ProcessMessageStep ==
    /\ process_message
    /\ UNCHANGED notWorker

TimeoutExpiresStep ==
    /\ visibility_timeout_expires
    /\ UNCHANGED notWorker

NextWorker ==
    \/ SendToQueueStep
    \/ ReadFromQueueStep
    \/ ProcessMessageStep
    \/ TimeoutExpiresStep

\* the worker task is always scheduled again after its sleep, and every
\* visibility timeout runs out
SpecWorker ==
    /\ Init
    /\ [][NextWorker]_vars
    /\ WF_vars(ReadFromQueueStep)
    /\ WF_vars(ProcessMessageStep)
    /\ WF_vars(TimeoutExpiresStep)

\* ---- export queue, worker and routes
EnqueueStep ==
    /\ \E types \in ExportTypeLists, sendOk \in BOOLEAN :
          enqueue_export_job(types, sendOk)
    /\ UNCHANGED notExport

WorkerReadStep ==
    /\ worker_read
    /\ UNCHANGED notExport

WorkerBeginStep ==
    /\ worker_begin
    /\ UNCHANGED notExport

WorkerRenderStep ==
    /\ worker_render
    /\ UNCHANGED notExport

WorkerFailStep ==
    /\ \E e \in ErrorTexts : worker_fail(e)
    /\ UNCHANGED notExport

WorkerCompleteStep ==
    /\ \E rpcOk \in BOOLEAN : worker_complete(rpcOk)
    /\ UNCHANGED notExport

VisibilityTimeoutStep ==
    /\ \E m \in DOMAIN queue : visibility_timeout(m)
    /\ UNCHANGED notExport

ExportStatusStep ==
    /\ \E cred \in Credentials, j \in 1..MaxJobs : get_export_status(cred, j)
    /\ UNCHANGED notExport

DownloadStep ==
    /\ \E kind \in DownloadKinds, cred \in Credentials,
          f \in DOMAIN file_cache \cup {MissingFile} :
          download(kind, cred, f)
    /\ UNCHANGED notExport

ExportCleanupStep ==
    /\ \E cred \in Credentials : cleanup_old_files(cred)
    /\ UNCHANGED notExport

FilesAgeStep ==
    /\ files_age
    /\ UNCHANGED notExport

NextExport ==
    \/ EnqueueStep
    \/ WorkerReadStep
    \/ WorkerBeginStep
    \/ WorkerRenderStep
    \/ WorkerFailStep
    \/ WorkerCompleteStep
    \/ VisibilityTimeoutStep
    \/ ExportStatusStep
    \/ DownloadStep
    \/ ExportCleanupStep
    \/ FilesAgeStep

SpecExport == Init /\ [][NextExport]_vars

\* ---- the export queue and its worker alone
NextQueue ==
    \/ EnqueueStep
    \/ WorkerReadStep
    \/ WorkerBeginStep
    \/ WorkerRenderStep
    \/ WorkerFailStep
    \/ WorkerCompleteStep
    \/ VisibilityTimeoutStep
    \/ ExportStatusStep

SpecQueue == Init /\ [][NextQueue]_vars

----------------------------------------------------------------------------
\* Properties of the conversation manager and the session routes

SessionOps == {"get", "update", "delete", "chat", "add_message"}

\* what the cache and the store hold of a session
CachedState(sid) ==
    IF sid \in DOMAIN active_sessions THEN {active_sessions[sid]} ELSE {}

StoredState(sid) ==
    IF sid \in DOMAIN chat_sessions THEN {chat_sessions[sid]} ELSE {}

SessionState(sid) == <<CachedState(sid), StoredState(sid), chat_messages[sid]>>

\* C1: only a session's owner can use it.  Whenever a get, update, delete,
\* chat turn or add-message is carried out on an existing session with the
\* identity of a user other than its owner, the operation does not succeed
\* and the session's cached and stored state stay as they were.
OnlyOwnerStep ==
    \A sid \in SessionIds :
       ( /\ resp'.op \in SessionOps
         /\ resp'.sid = sid
         /\ get_session(sid) # {}
         /\ \A s \in get_session(sid) : s.user_id # resp'.user )
       => ( /\ resp'.code # 200
            /\ SessionState(sid)' = SessionState(sid) )

C1_OnlyOwnerUsesSession == [][OnlyOwnerStep]_vars

\* the session's last activity: the later of the cached and the stored stamp
LastActivity(sid) ==
    LET stamps == {s.last_activity : s \in CachedState(sid) \cup StoredState(sid)}
    IN CHOOSE t \in stamps : \A other \in stamps : other <= t

\* C9: after a cleanup sweep every session whose last activity is more than
\* 24 hours in the past is out of the cache and archived in the store, and
\* every session whose last activity is less than 24 hours in the past is
\* untouched.  (Read for the sessions the sweep is about, those active in the
\* store, and for a sweep whose store update went through.)
SweepStep ==
    (resp'.op = "cleanup" /\ resp'.code = 200) =>
       \A sid \in DOMAIN chat_sessions :
          chat_sessions[sid].status = "active" =>
             /\ now - LastActivity(sid) > SessionTimeoutHours =>
                   /\ sid \notin DOMAIN active_sessions'
                   /\ chat_sessions'[sid].status = "archived"
             /\ now - LastActivity(sid) < SessionTimeoutHours =>
                   /\ CachedState(sid)' = CachedState(sid)
                   /\ StoredState(sid)' = StoredState(sid)

C9_SweepArchivesOnlyExpired == [][SweepStep]_vars

\* C10: a session's messages leave the store only together with its row, and
\* delete-session returns false only for a session that does not exist or is
\* not the caller's, and then the row, the messages and the cache entry are
\* all unchanged.
DeleteStep ==
    \A sid \in SessionIds :
       /\ chat_messages'[sid] < chat_messages[sid] => sid \notin DOMAIN chat_sessions'
       /\ (resp'.op = "delete" /\ resp'.sid = sid /\ resp'.code # 200) =>
             /\ \/ get_session(sid) = {}
                \/ \E s \in get_session(sid) : s.user_id # resp'.user
             /\ SessionState(sid)' = SessionState(sid)

C10_DeleteIsAllOrNothing == [][DeleteStep]_vars

----------------------------------------------------------------------------
\* Response cache claim

\* C2: a chat request never receives a user-specific-tier response that was
\* generated and cached for a different user (the user id is part of the
\* user-specific cache key).
C2_NoCrossUserHit ==
    (genResp.route = "chat" /\ genResp.hit /\ genResp.cache_type = "user_specific")
        => genResp.for_user = genResp.user

----------------------------------------------------------------------------
\* Export route claim

\* C3: a request without a valid bearer credential never receives an exported
\* file and never triggers the file purge.
C3_ExportRoutesRequireAuth ==
    exportResp.cred # "valid" =>
        /\ ~exportResp.served
        /\ ~(exportResp.op = "cleanup" /\ exportResp.code = 200)

----------------------------------------------------------------------------
\* Rate limit claim

\* the requests of the answered client before the one just answered
PriorRequests == SubSeq(seen[rlResp.ip], 1, Len(seen[rlResp.ip]) - 1)

\* how many of them lie less than one window before the one just answered
PriorInWindow(onlyForwarded) ==
    Cardinality({i \in 1..Len(PriorRequests) :
                    /\ rlResp.t - PriorRequests[i].t < Window
                    /\ (onlyForwarded => PriorRequests[i].fwd)})

\* C4: for one client IP and limit L, a non-exempt request with fewer than L
\* requests in the 60 seconds before it is forwarded; one with L forwarded
\* requests in the 60 seconds before it is answered 429 with
\* X-RateLimit-Remaining 0 and a Retry-After of at least 1 second; and one
\* made when the window of every earlier forwarded request has fully elapsed
\* is forwarded again.
C4_RateLimitWindow ==
    (rlResp.ip \in IPs /\ rlResp.path \notin ExcludedPaths) =>
        /\ PriorInWindow(FALSE) < RequestsPerMinute => rlResp.forwarded
        /\ PriorInWindow(TRUE) >= RequestsPerMinute =>
              /\ ~rlResp.forwarded
              /\ rlResp.status = 429
              /\ rlResp.remaining = 0
              /\ rlResp.retry_after >= 1
        /\ PriorInWindow(TRUE) = 0 => rlResp.forwarded

\* L requests forwarded in one window, the next one in that window refused,
\* and a request after the window has elapsed forwarded again
C4_Witness ==
    \E ip \in IPs :
        LET s == seen[ip]
            L == RequestsPerMinute
        IN
        /\ rlResp.ip = ip
        /\ rlResp.path \notin ExcludedPaths
        /\ rlResp.forwarded
        /\ Len(s) = L + 2
        /\ \A i \in 1..L : s[i].fwd
        /\ ~s[L + 1].fwd
        /\ s[L + 1].t - s[1].t < Window
        /\ s[L + 2].fwd
        /\ s[L + 2].t - s[L].t >= Window

----------------------------------------------------------------------------
\* Export queue claims

Range(sq) == {sq[i] : i \in 1..Len(sq)}

\* an enqueue step (the only step that draws a job id)
EnqueueHappens == next_job' = next_job + 1

\* a completion step of the worker (the only step that counts a completion)
CompletionHappens == completions' # completions

\* a poll of a job's status that is answered
PollHappens ==
    /\ exportResp' # exportResp
    /\ exportResp'.op = "status"
    /\ exportResp'.code = 200

\* the poll answers with the job's status record
PollReadsRecord ==
    PollHappens =>
        LET j == exportResp'.job_id IN
        IF j \in DOMAIN export_status
        THEN /\ exportResp'.status = export_status[j].status
             /\ exportResp'.export_urls = export_status[j].export_urls
        ELSE exportResp'.status = "not_found"

\* the worker's successful turn leaves completed with a URL per requested type
CompletionRecordsUrls ==
    CompletionHappens =>
        LET msg == Head(batch) IN
        /\ export_status'[msg.job_id].status = "completed"
        /\ export_status'[msg.job_id].export_urls = Range(msg.export_types)

\* C5 as stated: every enqueue returns status queued with a job id (and a job
\* processed without a rendering exception polls as completed with a URL for
\* every requested type).
C5_EnqueueStep ==
    /\ EnqueueHappens =>
          exportResp'.status = "queued" /\ exportResp'.job_id # NoJob
    /\ CompletionRecordsUrls
    /\ PollReadsRecord

C5_EnqueueAlwaysQueued == [][C5_EnqueueStep]_vars

\* C5 amended: when the queue accepts the message, enqueue returns status
\* queued with a job id (when the send fails it returns status failed and no
\* job id); when the worker processes the job's message without a rendering
\* exception the job's record reads completed with a URL for every requested
\* export type, and a poll returns that record.
C5_AcceptedEnqueueStep ==
    /\ EnqueueHappens =>
          IF next_job' \in DOMAIN queue'
          THEN /\ exportResp'.status = "queued"
               /\ exportResp'.job_id = next_job'
               /\ export_status'[next_job'].status = "queued"
          ELSE /\ exportResp'.status = "failed"
               /\ exportResp'.job_id = NoJob
    /\ CompletionRecordsUrls
    /\ PollReadsRecord

C5_ExportLifecycle == [][C5_AcceptedEnqueueStep]_vars

\* a poll that returned completed with the three URLs of a chat export
C5_Witness ==
    /\ exportResp.op = "status"
    /\ exportResp.status = "completed"
    /\ exportResp.job_id \in DOMAIN export_status
    /\ exportResp.export_urls = {"excel", "pdf", "powerpoint"}

C7_CompletedAtMostOnce == \A j \in 1..MaxJobs : completions[j] <= 1

\* C8 as stated: once a job's status reads completed or failed no later step
\* changes it.
C8_TerminalStep ==
    \A j \in DOMAIN export_status :
        export_status[j].status \in {"completed", "failed"} =>
            export_status'[j].status = export_status[j].status

C8_CompletedFailedTerminal == [][C8_TerminalStep]_vars

\* C8 amended: a job's status no longer changes once its queue message has been
\* deleted; while the message is still in the queue (a failed job, or a
\* completed one whose delete did not go through) the only change from
\* completed or failed is back to processing, at a redelivery.
C8_AcknowledgedStep ==
    \A j \in DOMAIN export_status :
        /\ export_status[j].msg_id \notin DOMAIN queue =>
              export_status'[j].status = export_status[j].status
        /\ ( /\ export_status[j].status \in {"completed", "failed"}
             /\ export_status'[j].status # export_status[j].status )
           => /\ export_status'[j].status = "processing"
              /\ export_status[j].msg_id \in DOMAIN queue

C8_TerminalOnceAcknowledged == [][C8_AcknowledgedStep]_vars

\* a job is completed and acknowledged, and the worker has since taken the
\* turn of another job
C8_Witness ==
    \E j \in DOMAIN export_status :
        /\ export_status[j].status = "completed"
        /\ export_status[j].msg_id \notin DOMAIN queue
        /\ wevent.kind \in {"begin", "render", "completed", "failed"}
        /\ wevent.job_id # j

----------------------------------------------------------------------------
\* Write-path failure claims

\* a step in which a scheduled add_message ran and reported success
AddMessageSucceeds ==
    /\ background_tasks' # background_tasks
    /\ resp'.op = "add_message"
    /\ resp'.code = 200

\* C11: add-message reports success and raises the session's message count by
\* 2 only when the user/assistant pair was stored, so a session's message
\* count equals the number of its stored messages.
C11_AddStep ==
    AddMessageSucceeds =>
        LET sid == resp'.sid IN
        /\ chat_messages'[sid] = chat_messages[sid] + 2
        /\ active_sessions'[sid].message_count = chat_messages'[sid]

C11_CountOnlyStoredMessages == [][C11_AddStep]_vars

\* C12: when the insert of a newly created session fails, get-or-create does
\* not return a session (the route does not answer 200), and no session that
\* is missing from the store is left in the in-process cache.
C12_NoUnstoredSession ==
    /\ \A sid \in DOMAIN active_sessions : sid \in DOMAIN chat_sessions
    /\ (resp.op = "create" /\ resp.code = 200) => resp.sid \in DOMAIN chat_sessions

----------------------------------------------------------------------------
\* Cache lookup claims

\* C13: when the lookup at the start of generate-response hits, the cached
\* payload is returned at once: that call does no retrieval, no complexity
\* analysis, no model call and no cache write, and the key space is as before.
C13_HitStep ==
    (genResp' # genResp /\ genResp'.hit) =>
        /\ genResp'.code = 200
        /\ ~genResp'.retrieval
        /\ ~genResp'.analysis
        /\ ~genResp'.model_call
        /\ ~genResp'.cache_write
        /\ redis' = redis

C13_HitShortCircuits == [][C13_HitStep]_vars

\* a chat request for a framework query (one that fetches framework context
\* on a miss) answered from the cache
C13_Witness ==
    /\ genResp.route = "chat"
    /\ genResp.hit
    /\ genResp.cache_type = "framework"
    /\ genResp.code = 200

\* C14: no failure of the cache fails a request: whenever the model's reply
\* (or a cached one) is to be had, the request is answered with it.
C14_CacheNeverFailsRequest ==
    (genResp.route # "init" /\ genResp.reply_available) => genResp.code = 200

\* the part of C14 that holds: once the cache module is loaded, no failure of
\* a lookup or of a write fails the request
CacheAdvisoryOnceLoaded ==
    (genResp.route # "init" /\ genResp.reply_available /\ cache_service = "ready")
        => genResp.code = 200

----------------------------------------------------------------------------
\* Query normalisation claims

Normalized == normalized # NotNormalized

\* C15: two queries that differ only in letter case, in leading, trailing or
\* repeated blanks, in the stripped characters or in a listed phrase variant
\* normalize to the same string, and normalizing that string again returns it
\* unchanged.
C15_CanonicalForm ==
    Normalized =>
        /\ normalized.first = normalized.second
        /\ normalized.again = normalized.second

\* the part of C15 that holds: queries free of stripped characters
C15_CanonicalWithoutPunctuation ==
    (/\ Normalized
     /\ \A i \in 1..Len(query_text) : query_text[i] \notin Punctuation
     /\ \A i \in 1..Len(query_variant) : query_variant[i] \notin Punctuation) =>
        /\ normalized.first = normalized.second
        /\ normalized.again = normalized.second

----------------------------------------------------------------------------
\* Retrieval claims

NeedsProject == retrieved.mode \in {"local", "hybrid"} /\ retrieved.project_id = NoProject

\* C16: a retrieve call in local or hybrid mode without a project id raises the
\* validation failure, and does so before any network call, the query
\* embedding included.
C16_ValidationBeforeNetwork ==
    (retrieved.outcome # "none" /\ NeedsProject) =>
        /\ retrieved.outcome = "validation_error"
        /\ retrieved.calls = <<>>

\* what does hold: such a call never reaches a corpus
C16_NoSearchWithoutProject ==
    (retrieved.outcome # "none" /\ NeedsProject) =>
        /\ retrieved.outcome # "ok"
        /\ retrieved.calls = <<"embedding">>

FusedPosition(item) == CHOOSE i \in 1..Len(fused.out) : fused.out[i] = item

InFused(item) == \E i \in 1..Len(fused.out) : fused.out[i] = item

DisjointLists == Range(fused.first) \cap Range(fused.second) = {}

\* each item ahead of another in list l is ahead of it in the output, and is
\* there whenever the other is
KeepsOrderOf(l) ==
    \A i, j \in 1..Len(l) :
        (i < j /\ InFused(l[j])) =>
            InFused(l[i]) /\ FusedPosition(l[i]) < FusedPosition(l[j])

GlobalAheadAtEqualRank ==
    \A r \in 1..Len(fused.second) :
        (r <= Len(fused.first) /\ InFused(fused.second[r])) =>
            /\ InFused(fused.first[r])
            /\ FusedPosition(fused.first[r]) < FusedPosition(fused.second[r])

TotalItems == Len(fused.first) + Len(fused.second)

\* first[1], second[1], first[2], second[2], ...
RECURSIVE Interleave(_, _)
Interleave(a, b) ==
    IF a = <<>> THEN b
    ELSE IF b = <<>> THEN a
    ELSE <<Head(a), Head(b)>> \o Interleave(Tail(a), Tail(b))

\* C17: fusing two disjoint ranked lists keeps the order inside each list,
\* puts the first (global) list's item ahead of the second (tenant) list's item
\* of the same rank, returns min(k, total) items, none twice, and the output is
\* a function of the input alone (the two lists taken rank by rank, cut at k).
C17_FusionOrder ==
    (fused.called /\ DisjointLists) =>
        /\ KeepsOrderOf(fused.first)
        /\ KeepsOrderOf(fused.second)
        /\ GlobalAheadAtEqualRank
        /\ Len(fused.out) = (IF fused.k < TotalItems THEN fused.k ELSE TotalItems)
        /\ \A i, j \in 1..Len(fused.out) : i # j => fused.out[i] # fused.out[j]
        /\ Range(fused.out) \subseteq Range(fused.first) \cup Range(fused.second)
        /\ fused.out = SubSeq(Interleave(fused.first, fused.second), 1, Len(fused.out))

\* [A, B, C] and [X, Y] fused with k = 4: the output is cut, and holds items
\* of both lists
C17_Witness ==
    /\ fused.called
    /\ DisjointLists
    /\ Len(fused.first) = 3
    /\ Len(fused.second) = 2
    /\ fused.k = 4
    /\ Len(fused.out) = 4
    /\ InFused(fused.second[2])

----------------------------------------------------------------------------
\* Sticky routing claims

PersistedIn(rows, sid) == IF sid \in DOMAIN rows THEN StickyTurns(rows[sid]) ELSE 0

PersistedTurns(sid) == PersistedIn(session_metadata, sid)

ConsumeReturns ==
    /\ stickyResp' # stickyResp \/ sticky_history' # sticky_history
    /\ stickyResp'.op = "consume"

C18_ConsumeStep ==
    ConsumeReturns =>
        LET sid == stickyResp'.sid
            h == sticky_history'[sid]
            sound == h.failed = sticky_history[sid].failed
        IN
        /\ stickyResp'.returned =>
              /\ PersistedTurns(sid) > 0
              /\ PersistedIn(session_metadata', sid) = PersistedTurns(sid) - 1
        /\ ~stickyResp'.returned => PersistedIn(session_metadata', sid) = PersistedTurns(sid)
        /\ ~sound => ~stickyResp'.returned
        /\ (sound /\ sticky_history[sid].set) =>
              stickyResp'.returned = (h.consumes - h.failed <= h.turns)
        /\ \A c \in ConversationIds \ {sid} : PersistedIn(session_metadata', c) = PersistedTurns(c)

----------------------------------------------------------------------------
\* Streaming claims

EventTypes(events) == [i \in 1..Len(events) |-> events[i].type]

CompleteSent == \E i \in 1..Len(sse.events) : sse.events[i].type = "complete"

\* the content events of a stream, in the order sent
ContentEvents(events) == SelectSeq(events, LAMBDA e : e.type = "content")

RECURSIVE Concatenation(_)
Concatenation(events) ==
    IF events = <<>> THEN <<>> ELSE Head(events).content \o Concatenation(Tail(events))

\* C19: a chat/stream response sends one context event first, then one
\* content event per chunk of the model router in the order produced, then
\* one completion event; the turn is stored only after the completion event,
\* and the stored reply is the concatenation of the content sent.
C19_StreamOrder ==
    LET events == sse.events
        contents == ContentEvents(events)
    IN
    /\ events # <<>> => events[1].type = "context" /\ events[1].sources = sse.sources
    /\ \A i \in 2..Len(events) : events[i].type \in {"content", "complete"}
    /\ \A i \in 1..Len(events) : events[i].type = "complete" => i = Len(events)
    /\ Len(contents) = Len(sse.chunks)
    /\ \A i \in 1..Len(contents) : contents[i].content = sse.chunks[i].content
    /\ sse.pc \in {"completed", "done"} => CompleteSent
    /\ sse.saved => CompleteSent /\ sse.ai_response = Concatenation(contents)

\* a stream of two different pieces that ran to its end and was stored
C19_Witness ==
    /\ sse.pc = "done"
    /\ sse.saved
    /\ EventTypes(sse.events) = <<"context", "content", "content", "complete">>
    /\ sse.ai_response = <<"a", "b">>

----------------------------------------------------------------------------
\* WebSocket claims

OutTypes == EventTypes(websocket.out)

\* the server has answered a frame and the client has not gone away
FrameAnswered == websocket.frame # NoFrame /\ websocket.pc # "closed"

ObjectFrame == websocket.frame.json = "object"

ChatWithText ==
    /\ ObjectFrame
    /\ websocket.frame.type = "chat"
    /\ websocket.frame.text
    /\ ~IsBlankMessage(websocket.frame.message)

ChatWithoutText == ObjectFrame /\ websocket.frame.type = "chat" /\ ~ChatWithText

\* sources, then content events only, then one complete
FullAnswer ==
    /\ Len(OutTypes) >= 2
    /\ OutTypes[1] = "sources"
    /\ OutTypes[Len(OutTypes)] = "complete"
    /\ \A i \in 2..(Len(OutTypes) - 1) : OutTypes[i] = "content"

\* the answers on which C20 and its amended form agree
AnswersInCommon ==
    /\ websocket.pc # "none" => websocket.first = "connected"
    /\ FrameAnswered =>
        /\ ChatWithoutText => OutTypes = <<"error">> /\ websocket.calls = <<>>
        /\ websocket.frame.type = "ping" => OutTypes = <<"pong">>
        /\ websocket.frame.type \notin {"chat", "ping"} => OutTypes = <<"error">>

\* C20 as stated: a chat frame with a non-empty message is always answered by
\* sources, content events and one complete, and after every frame the
\* connection reads on.
C20_OneAnswerPerFrame ==
    /\ AnswersInCommon
    /\ FrameAnswered =>
        /\ ChatWithText => FullAnswer
        /\ websocket.pc = "reading"

\* C20, amended: the first outbound frame is the connected event; a chat frame
\* with a non-empty message gets sources, content events and one complete when
\* retrieval succeeds, and a single error event with no model call when it
\* fails; a chat frame with an empty, blank or non-text message gets a single
\* error event with no retrieval or model call; ping gets a single pong; any
\* other frame gets a single error event; after a frame that is a JSON object
\* the connection reads on, after any other frame the handler returns.
C20_FrameAnswers ==
    /\ AnswersInCommon
    /\ FrameAnswered =>
        /\ ChatWithText =>
              \/ FullAnswer /\ websocket.calls = <<"retrieval", "model">>
              \/ OutTypes = <<"error">> /\ websocket.calls = <<"retrieval">>
        /\ ObjectFrame => websocket.pc = "reading"
        /\ ~ObjectFrame => websocket.pc = "returned"

\* a chat frame answered in full with two content events, the socket reading on
C20_Witness ==
    /\ websocket.pc = "reading"
    /\ ChatWithText
    /\ OutTypes = <<"sources", "content", "content", "complete">>
    /\ websocket.calls = <<"retrieval", "model">>

----------------------------------------------------------------------------
\* Production profile claims

ProdAnswered == prodResp.status # 0

\* C21: every request, one rejected by JWT authentication with 401 or 403
\* included, passes the rate limiter first and is counted and given an
\* X-Request-ID by the tracing middleware.
C21_LimiterAndTracingOutsideAuth ==
    ProdAnswered /\ prodResp.status \in {401, 403} =>
        /\ prodResp.visited[1] = "slowapi"
        /\ prodResp.counted
        /\ prodResp.request_id

\* what the stack does instead: authentication is the outermost layer, and a
\* request it rejects reaches no other layer
C21_AuthIsOutermost ==
    ProdAnswered =>
        /\ prodResp.visited[1] = "jwt"
        /\ prodResp.status \in {401, 403} =>
              prodResp.visited = <<"jwt">> /\ ~prodResp.counted /\ ~prodResp.request_id

----------------------------------------------------------------------------
\* Monitoring claims

\* C22: every non-exempt request that reaches the rate limiter is reported to
\* the monitoring counters exactly once, and as an error whenever it fails:
\* when it is answered 429 and when its handler raises an exception.
C22_FailuresCountedAsErrors ==
    monResp.reached =>
        /\ monResp.recorded = 1
        /\ (monResp.status = 429 \/ monResp.handler_raised) => monResp.recorded_error

\* the part that holds: one report per non-exempt request, none for an exempt
\* one, and a 429 is an error
C22_ReportedOnce ==
    [][\A ip \in IPs, path \in Paths, handlerRaises \in BOOLEAN :
          monitored_dispatch(ip, path, handlerRaises) =>
              /\ metrics_store'.requests_total =
                    metrics_store.requests_total + (IF path \in ExcludedPaths THEN 0 ELSE 1)
              /\ monResp'.status = 429 =>
                    metrics_store'.errors_total = metrics_store.errors_total + 1]_vars

----------------------------------------------------------------------------
\* Application lifecycle claims

\* C23: the rate-limit cleanup task is started when the application starts and
\* cancelled when it shuts down: while the application serves requests one
\* cleanup task is running, after shutdown none is.
C23_CleanupTaskFollowsLifecycle ==
    /\ app_phase = "serving" => cleanup_task = "running"
    /\ app_phase = "stopped" => cleanup_task = "none"

\* what happens instead: the task is never started
C23_CleanupTaskNeverStarted == cleanup_task = "none"

\* C24: once the application has started, GET /api/v1/health is answered 200
\* with status "healthy" and a timestamp, whatever the backends' health.
C24_HealthAfterStartup ==
    appResp.path = "/api/v1/health" =>
        /\ appResp.status = 200
        /\ appResp.body_status = "healthy"
        /\ appResp.timestamp

----------------------------------------------------------------------------
\* Rate limiter under concurrency

\* forwarded requests of ip in the window that ends with its i-th request
ForwardedInWindow(ip, i) ==
    Cardinality({j \in 1..i : /\ seen[ip][j].fwd
                              /\ InWindow(seen[ip][i].t, seen[ip][j].t)})

\* C25: under every interleaving of requests and the cleanup task the check
\* and the append of one request happen in one step of the event loop, so for
\* every IP no 60-second window holds more forwarded requests than the limit,
\* and a request answered 429 adds no timestamp.
C25_AtomicCheckThenAppend ==
    /\ [](\A ip \in IPs : \A i \in 1..Len(seen[ip]) :
             seen[ip][i].fwd => ForwardedInWindow(ip, i) <= RequestsPerMinute)
    /\ [][\A ip \in IPs, path \in Paths :
             (dispatch_begin(ip, path) /\ Len(seen'[ip]) > Len(seen[ip])
                 /\ ~seen'[ip][Len(seen'[ip])].fwd)
             => /\ requests'[ip] = Filter(requests[ip], clock)
                /\ in_flight' = in_flight]_vars

\* the limit's worth of requests of one IP suspended in call_next at once, and
\* a further request of that IP answered 429 meanwhile
C25_Witness ==
    \E ip \in IPs :
        /\ in_flight[ip] = MaxInFlight
        /\ Len(requests[ip]) >= RequestsPerMinute
        /\ rlResp.ip = ip
        /\ rlResp.status = 429

----------------------------------------------------------------------------
\* Concurrent turns on one session

BetweenReadAndWriteBack(c) == turn_pc[c] \in {"loaded", "stored"}

AllReturnedTrue == \A c \in Calls : turn_pc[c] = "done" /\ turn_result[c] = "true"

----------------------------------------------------------------------------
\* Current-trace slot

\* C27: while a traced request is in progress the slot holds its own tracer,
\* so everything the model router records through the slot is attributed to
\* the request that caused it, also with several requests in flight.
C27_RecordsAttributedToCause ==
    \A rec \in recordings : rec.tracer = rec.caused_by

\* the part that holds: what a traced request causes is recorded into its own
\* tracer
C27_TracedRequestRecordsIntoOwnTracer ==
    \A rec \in recordings :
        trace_pc[rec.caused_by] = "responding" => rec.tracer = rec.caused_by

----------------------------------------------------------------------------
\* Errors of the model router's stream

\* C28: an error event of the model router's stream ends the chat/stream
\* response: the client gets it as an error event, no completion event
\* follows, and the error text is not stored as the assistant's reply.
C28_ErrorChunkIsTerminal ==
    StreamEnded =>
        /\ sse.events[Len(sse.chunks) + 1].type = "error"
        /\ \A i \in 1..Len(sse.events) : sse.events[i].type # "complete"
        /\ ~sse.saved

\* what the route does with the error chunk: it goes out as a content event
\* and into the reply that is stored
C28_ErrorChunkSentAsContent ==
    StreamEnded =>
        /\ sse.events[Len(sse.chunks) + 1].type = "content"
        /\ sse.events[Len(sse.chunks) + 1].content = ErrorText
        /\ sse.saved =>
              sse.ai_response[Len(sse.ai_response)] = ErrorText[Len(ErrorText)]

----------------------------------------------------------------------------
\* Progress of the export worker

Queued(id) == pgmq[id].place \in {"visible", "hidden"}

Acknowledged(id) == pgmq[id].place = "deleted" /\ job_state[id] = "completed"

MalformedQueued == \E id \in MessageIds : Queued(id) /\ pgmq[id].kind = "malformed"

\* C29: every queued export job whose rendering succeeds is eventually marked
\* completed and acknowledged, even while other messages keep failing: a
\* failing or malformed message neither stops the worker loop nor starves the
\* jobs queued behind it.
C29_GoodJobsEventuallyAcknowledged ==
    \A id \in MessageIds :
        (Queued(id) /\ pgmq[id].kind = "good") ~> Acknowledged(id)

\* the part that holds: with failing messages only, every good job gets
\* through, and the loop goes on polling after a malformed message
C29_FailingMessagesDoNotStarve ==
    \A id \in MessageIds :
        (Queued(id) /\ pgmq[id].kind = "good") ~> (Acknowledged(id) \/ MalformedQueued)

----------------------------------------------------------------------------
\* Archiving, cache against store

Archived(rows, sid) == sid \in DOMAIN rows /\ rows[sid].status = "archived"

\* C30: after any sequence of chat turns and cleanup sweeps no session is
\* held in the cache as active while its row is archived, and a session the
\* sweep has archived is not set back to active by a later add-message.
C30_CacheAndStoreAgreeOnArchiving ==
    /\ [](\A sid \in DOMAIN active_sessions :
             ~(active_sessions[sid].status = "active" /\ Archived(chat_sessions, sid)))
    /\ [][\A t \in background_tasks, msgOk, dbOk \in BOOLEAN :
             (add_message(t, msgOk, dbOk) /\ Archived(chat_sessions, t.sid))
                 => Archived(chat_sessions', t.sid)]_vars

\* the part that holds: the sweep itself never turns a row back to active,
\* and a session that is no longer cached stays archived through add-message
C30_UncachedStaysArchived ==
    [][\A t \in background_tasks, msgOk, dbOk \in BOOLEAN :
          (/\ add_message(t, msgOk, dbOk)
           /\ Archived(chat_sessions, t.sid)
           /\ t.sid \notin DOMAIN active_sessions)
              => Archived(chat_sessions', t.sid)]_vars

====
